---- MODULE Spec2Model ----
(***************************************************************************)
(* Verification model of the Pulsar heart monitor:                         *)
(*   - HrAnomalyDetector (components/heart_monitor/include/                *)
(*     hr_anomaly_detector.h): the alarm state machine;                    *)
(*   - PulseBpm (components/heart_monitor/src/pulse_bpm.cpp): the beat     *)
(*     registration, IBI ring and BPM computation, and the signal chain    *)
(*     in fixed point;                                                     *)
(*   - sampler_task, detector_task, the three mailboxes and the startup    *)
(*     (heart_monitor_tasks.cpp, app_main).                                *)
(* Times are milliseconds.  The float quality is modelled in hundredths    *)
(* (0.25f is 25): every comparison the code makes on it is a comparison    *)
(* against 0.25f, which is exact in binary floating point.                 *)
(***************************************************************************)
EXTENDS Integers, Sequences, FiniteSets, TLC

(***************************************************************************)
(* Bounds of the model.                                                    *)
(***************************************************************************)
MaxTicks == 4
MaxCalls == 18
MaxSamples == 7
MaxIters == 11
MaxPublishes == 2
MaxMlWrites == 2
TimeHorizon == 5000
MaxPolls == 4
MaxBeatCalls == 14
MaxFastCalls == 10
MaxRingTicks == 10
MaxFeedIters == 30
MaxTeleIters == 24
PrefixTicks == 6
SteadyTicks == 9
MaxStaleTicks == 15
PublishHorizon == 5000
StaleHorizon == 13000

(***************************************************************************)
(* heart_monitor_types.h                                                   *)
(***************************************************************************)
NONE         == "NONE"
NO_SIGNAL    == "NO_SIGNAL"
BRADYCARDIA  == "BRADYCARDIA"
TACHYCARDIA  == "TACHYCARDIA"
RAPID_CHANGE == "RAPID_CHANGE"

AlarmType == {NONE, NO_SIGNAL, BRADYCARDIA, TACHYCARDIA, RAPID_CHANGE}

\* AlarmEvent{}: the default-constructed event
AlarmEvent0 == [type |-> NONE, bpm |-> 0, quality |-> 0, t_ms |-> 0]

(***************************************************************************)
(* HrAnomalyDetector::Config                                               *)
(***************************************************************************)
brady_bpm              == 45
tachy_bpm              == 130
sustain_ms             == 5000
min_quality_for_bpm    == 25
no_signal_ms           == 3000
rapid_change_delta_bpm == 35
rapid_change_window_ms == 5000
clear_ms               == 3000
HIST_N                 == 8

VARIABLES
    \* HrAnomalyDetector members
    active_alarm_, last_t_ms_, no_signal_since_ms_, abnormal_since_ms_,
    abnormal_kind_, clear_since_ms_, hist_, hist_wr_, hist_count_,
    \* result of the last HrAnomalyDetector::update call
    det_ret, out_event,
    \* observer: one record per update call made so far
    trace,
    \* PulseBpm members (beat timing and IBI ring)
    env_inited_, have_prev_, prev_t_ms_, diff_prev_, last_beat_ms_,
    ibi_buf_, ibi_count_,
    \* result of the last PulseBpm::update call and its out_bpm argument
    pulse_ret, out_bpm,
    \* observer: time of the last call, number of update calls, what the last
    \* call did with a detected beat, the IBIs accepted since the last reset
    pulse_now, pulse_calls, beat_log, accepted,
    \* PulseBpm members (signal chain), in thousandths of an ADC count
    baseline_, lp_, env_min_, env_max_, prev_filt_, p2p_ema_, noise_ema_,
    \* the out_quality argument of the last PulseBpm::update call, in
    \* hundredths, and the number of update calls since the last reset
    out_quality, updates_since_reset,
    \* sampler_task locals, the BPM mailbox (empty, or the one reading it
    \* holds) and the clock now_ms() reads
    state, warmup_until, settling_until, last_raw, g_bpm_q, now,
    \* observer: the number of sampler iterations, what the last one did,
    \* the time of the most recent transient sample (-1: none), whether the
    \* last iteration entered RUNNING, the time sampler_task started, and
    \* whether it has reached its loop
    iters, it, last_transient_ms, entered_running, boot_ms, in_loop,
    \* app_main and heart_monitor_start: has ml_rx_start run, has
    \* heart_monitor_start run (the three queues exist from then on)
    ml_rx_running, started,
    \* the alarm mailbox and the corrected-BPM mailbox
    g_alarm_q, g_bpm_ml_q,
    \* detector_task: its locals, its position in the loop ("clock": about
    \* to read now_ms(), "peek": about to peek) and the end of its sleep
    last, have_last, tnow, dt_pc, wake_at,
    \* observer: the readings published so far, those published when
    \* detector_task last peeked, the item given to the last write call on
    \* each mailbox, whether the last corrected-BPM write call came before
    \* heart_monitor_start, the number of such calls, the last peek
    published, pub_at_peek, last_write, ml_before_start, ml_calls, peeked,
    \* telemetry_task: has telemetry_start run, its local
    \* last_sent_bpm_t_ms; observer: the lines handed to sendto so far and
    \* the number of iterations of its loop since the last line
    tele_running, last_sent_bpm_t_ms, sent, polls,
    \* lcd_task: its cached readings and alarm
    have_raw_bpm, raw_bpm, raw_bpm_t_ms, have_ml_bpm, ml_bpm, ml_bpm_rx_ms,
    alarm, alarm_bpm,
    \* observer: the time of the last lcd_task iteration, what it chose to
    \* show, the corrected BPM it last peeked (empty: none yet) and the time
    \* of the iteration that first peeked that value (-1: none)
    lcd_t, shown, ml_last_peek, ml_seen_ms

detVars == <<active_alarm_, last_t_ms_, no_signal_since_ms_, abnormal_since_ms_,
             abnormal_kind_, clear_since_ms_, hist_, hist_wr_, hist_count_,
             det_ret, out_event, trace>>

pulseVars == <<env_inited_, have_prev_, prev_t_ms_, diff_prev_, last_beat_ms_,
               ibi_buf_, ibi_count_, pulse_ret, out_bpm,
               pulse_now, pulse_calls, beat_log, accepted>>

signalVars == <<baseline_, lp_, env_min_, env_max_, prev_filt_, p2p_ema_,
                noise_ema_, out_quality, updates_since_reset>>

samplerVars == <<state, warmup_until, settling_until, last_raw,
                 iters, it, last_transient_ms, entered_running, boot_ms,
                 in_loop>>

sharedVars == <<g_bpm_q, now>>

taskVars == <<ml_rx_running, started, g_alarm_q, g_bpm_ml_q, last, have_last,
              tnow, dt_pc, wake_at, published, pub_at_peek, last_write,
              ml_before_start, ml_calls, peeked>>

teleVars == <<tele_running, last_sent_bpm_t_ms, sent, polls>>

lcdVars == <<have_raw_bpm, raw_bpm, raw_bpm_t_ms, have_ml_bpm, ml_bpm,
             ml_bpm_rx_ms, alarm, alarm_bpm, lcd_t, shown, ml_last_peek,
             ml_seen_ms>>

vars == <<detVars, pulseVars, signalVars, samplerVars, sharedVars, taskVars,
          teleVars, lcdVars>>

Abs(x) == IF x < 0 THEN -x ELSE x

(***************************************************************************)
(* The readings offered to the detector.                                   *)
(*   quality 50 = 0.50 (at or above the gate), 10 = 0.10 (below it).       *)
(***************************************************************************)
Kind(b, q, s) == [bpm |-> b, quality |-> q, stable |-> s]

ReadingKinds ==
    { Kind(70, 50, TRUE),  Kind(75, 50, TRUE),  Kind(110, 50, TRUE),
      Kind(40, 50, TRUE),  Kind(140, 50, TRUE),
      Kind(140, 10, TRUE), Kind(140, 50, FALSE),
      Kind(0, 50, TRUE) }

StartTimes == {0, 1000}
Steps      == {2000, 3000}

(***************************************************************************)
(* HrAnomalyDetector::update, lines 37-42: no-signal tracking              *)
(***************************************************************************)
NoSignalInput(r) == r.quality < min_quality_for_bpm \/ r.bpm <= 0

TrackNoSignal(since, r) ==
    IF NoSignalInput(r)
    THEN (IF since = 0 THEN r.t_ms ELSE since)
    ELSE 0

(***************************************************************************)
(* HrAnomalyDetector::push_hist                                            *)
(***************************************************************************)
\* variant: only a usable reading is stored
PushHistBufUsableOnly(h, wr, r) ==
    IF r.quality >= min_quality_for_bpm /\ r.stable
    THEN [h EXCEPT ![wr] = [bpm |-> r.bpm, t_ms |-> r.t_ms]]
    ELSE h

PushHistBuf(h, wr, r) == [h EXCEPT ![wr] = [bpm |-> r.bpm, t_ms |-> r.t_ms]]
PushHistWr(wr)        == (wr + 1) % HIST_N
PushHistCount(cnt)    == IF cnt < HIST_N THEN cnt + 1 ELSE cnt

(***************************************************************************)
(* HrAnomalyDetector::detect_rapid_change: the loop from index i on        *)
(***************************************************************************)
\* variant: the bpm delta compared with > instead of >=
RECURSIVE RapidScanStrict(_, _, _, _)
RapidScanStrict(h, wr, cnt, i) ==
    IF i >= cnt THEN FALSE
    ELSE LET newest == h[(wr + HIST_N - 1) % HIST_N]
             old    == h[(wr + HIST_N - 1 - i) % HIST_N]
             dt     == newest.t_ms - old.t_ms
         IN  IF dt <= 0 THEN RapidScanStrict(h, wr, cnt, i + 1)
             ELSE IF dt > rapid_change_window_ms THEN FALSE
             ELSE IF Abs(newest.bpm - old.bpm) > rapid_change_delta_bpm THEN TRUE
             ELSE RapidScanStrict(h, wr, cnt, i + 1)

RECURSIVE RapidScan(_, _, _, _)
RapidScan(h, wr, cnt, i) ==
    IF i >= cnt THEN FALSE
    ELSE LET newest == h[(wr + HIST_N - 1) % HIST_N]
             old    == h[(wr + HIST_N - 1 - i) % HIST_N]
             dt     == newest.t_ms - old.t_ms
         IN  IF dt <= 0 THEN RapidScan(h, wr, cnt, i + 1)
             ELSE IF dt > rapid_change_window_ms THEN FALSE
             ELSE IF Abs(newest.bpm - old.bpm) >= rapid_change_delta_bpm THEN TRUE
             ELSE RapidScan(h, wr, cnt, i + 1)

\* variant: every entry of the ring is compared, however old
detect_rapid_change_unwindowed(h, wr, cnt) ==
    /\ cnt >= 2
    /\ \E i \in 1..(cnt - 1) :
          LET newest == h[(wr + HIST_N - 1) % HIST_N]
              old    == h[(wr + HIST_N - 1 - i) % HIST_N]
          IN  /\ newest.t_ms - old.t_ms > 0
              /\ Abs(newest.bpm - old.bpm) >= rapid_change_delta_bpm

detect_rapid_change(h, wr, cnt) ==
    IF cnt < 2 THEN FALSE ELSE RapidScan(h, wr, cnt, 1)

(***************************************************************************)
(* HrAnomalyDetector::update, lines 48-52: NO_SIGNAL has priority          *)
(***************************************************************************)
\* variant: NO_SIGNAL as soon as the no-signal condition is seen
NoSignalDueAtOnce(since, r) == since # 0

NoSignalDue(since, r) ==
    since # 0 /\ (r.t_ms - since) >= no_signal_ms

\* variant: the quality gate left out of the usability test
UsableIgnoringQuality(r) == r.stable

Usable(r) == r.quality >= min_quality_for_bpm /\ r.stable

(***************************************************************************)
(* HrAnomalyDetector::update, lines 55-87: sustained brady/tachy tracking. *)
(* Gives the onset, the kind and the sustained candidate of a tick that    *)
(* is not a NO_SIGNAL tick.                                                *)
(***************************************************************************)
IsBrady(r) == r.bpm > 0 /\ r.bpm < brady_bpm
IsTachy(r) == r.bpm > tachy_bpm

\* variant: a change of kind does not restart the onset
OnsetAnyKind(since, kind, want, r) ==
    IF since = 0 THEN r.t_ms ELSE since

Onset(since, kind, want, r) ==
    IF since = 0 \/ kind # want THEN r.t_ms ELSE since

Sustained(since, r) == (r.t_ms - since) >= sustain_ms

TrackAbnormal(since, kind, r) ==
    IF Usable(r) /\ IsBrady(r) THEN
        LET s == Onset(since, kind, BRADYCARDIA, r)
        IN  [since |-> s, kind |-> BRADYCARDIA,
             cand |-> IF Sustained(s, r) THEN BRADYCARDIA ELSE NONE]
    ELSE IF Usable(r) /\ IsTachy(r) THEN
        LET s == Onset(since, kind, TACHYCARDIA, r)
        IN  [since |-> s, kind |-> TACHYCARDIA,
             cand |-> IF Sustained(s, r) THEN TACHYCARDIA ELSE NONE]
    ELSE [since |-> 0, kind |-> NONE, cand |-> NONE]

(***************************************************************************)
(* HrAnomalyDetector::update, lines 46-88: the candidate before the clear  *)
(* hysteresis.  h, wr, cnt are the history ring after push_hist.           *)
(***************************************************************************)
Candidate(nss, ab, h, wr, cnt, r) ==
    IF NoSignalDue(nss, r) THEN NO_SIGNAL
    ELSE IF ~Usable(r) THEN NONE
    ELSE IF ab.cand # NONE THEN ab.cand
    ELSE IF detect_rapid_change(h, wr, cnt) THEN RAPID_CHANGE
    ELSE NONE

(***************************************************************************)
(* HrAnomalyDetector::update, lines 90-100: clear hysteresis               *)
(***************************************************************************)
\* variant: a candidate that is an alarm leaves the clear timer running
ClearHysteresisKeepTimer(candidate, active, since, r) ==
    IF active # NONE /\ candidate = NONE THEN
        LET s == IF since = 0 THEN r.t_ms ELSE since
        IN  IF (r.t_ms - s) < clear_ms
            THEN [cand |-> active, since |-> s]
            ELSE [cand |-> NONE, since |-> 0]
    ELSE [cand |-> candidate, since |-> since]

ClearHysteresis(candidate, active, since, r) ==
    IF active # NONE /\ candidate = NONE THEN
        LET s == IF since = 0 THEN r.t_ms ELSE since
        IN  IF (r.t_ms - s) < clear_ms
            THEN [cand |-> active, since |-> s]
            ELSE [cand |-> NONE, since |-> 0]
    ELSE [cand |-> candidate, since |-> 0]

(***************************************************************************)
(* HrAnomalyDetector::update, lines 102-112: state transition              *)
(***************************************************************************)
\* variant: an event on every tick whose candidate is an alarm
TransitionOnAlarm(candidate, active) == candidate # NONE

Transition(candidate, active) == candidate # active

(***************************************************************************)
(* HrAnomalyDetector::update, the whole call                               *)
(***************************************************************************)
DetUpdate(r) ==
    LET nss  == TrackNoSignal(no_signal_since_ms_, r)
        h    == PushHistBuf(hist_, hist_wr_, r)
        wr   == PushHistWr(hist_wr_)
        cnt  == PushHistCount(hist_count_)
        due  == NoSignalDue(nss, r)
        ab   == IF due
                THEN [since |-> abnormal_since_ms_, kind |-> abnormal_kind_,
                      cand |-> NONE]
                ELSE TrackAbnormal(abnormal_since_ms_, abnormal_kind_, r)
        c0   == Candidate(nss, ab, h, wr, cnt, r)
        hy   == ClearHysteresis(c0, active_alarm_, clear_since_ms_, r)
        emit == Transition(hy.cand, active_alarm_)
    IN  /\ last_t_ms_' = r.t_ms
        /\ no_signal_since_ms_' = nss
        /\ hist_' = h
        /\ hist_wr_' = wr
        /\ hist_count_' = cnt
        /\ abnormal_since_ms_' = ab.since
        /\ abnormal_kind_' = ab.kind
        /\ clear_since_ms_' = hy.since
        /\ active_alarm_' = IF emit THEN hy.cand ELSE active_alarm_
        /\ out_event' = IF emit
                        THEN [type |-> hy.cand, bpm |-> r.bpm,
                              quality |-> r.quality, t_ms |-> r.t_ms]
                        ELSE out_event
        /\ det_ret' = emit
        /\ trace' = Append(trace,
                      [r |-> r, before |-> active_alarm_,
                       due |-> due, sust |-> ab.cand, cand |-> c0,
                       final |-> hy.cand, emitted |-> emit,
                       ev |-> IF emit THEN hy.cand ELSE NONE,
                       after |-> IF emit THEN hy.cand ELSE active_alarm_])

(***************************************************************************)
(* The detector driven by an arbitrary caller: one update per tick, the    *)
(* tick times strictly increasing.                                         *)
(***************************************************************************)
TickTimes ==
    IF Len(trace) = 0 THEN StartTimes
    ELSE {last_t_ms_ + d : d \in Steps}

DetTick ==
    /\ Len(trace) < MaxTicks
    /\ \E k \in ReadingKinds, t \in TickTimes :
          DetUpdate([bpm |-> k.bpm, quality |-> k.quality,
                     stable |-> k.stable, t_ms |-> t])

\* the same, one tick per second with a normal reading, an unstable reading
\* or the synthetic reading of an empty mailbox: long enough for the history
\* ring to wrap and for an alarm to rise, be held and clear
RingKinds == {Kind(70, 50, TRUE), Kind(140, 50, FALSE), Kind(0, 0, FALSE)}
RingStep  == 1000

RingTick ==
    /\ Len(trace) < MaxRingTicks
    /\ \E k \in RingKinds :
          DetUpdate([bpm |-> k.bpm, quality |-> k.quality,
                     stable |-> k.stable, t_ms |-> last_t_ms_ + RingStep])

\* the same, one tick per second: PrefixTicks ticks with any of three
\* readings, then SteadyTicks ticks that all have the normal reading
SettleKinds == {Kind(70, 50, TRUE), Kind(140, 50, TRUE), Kind(0, 0, FALSE)}

SettleTick ==
    /\ Len(trace) < PrefixTicks + SteadyTicks
    /\ \E k \in IF Len(trace) < PrefixTicks THEN SettleKinds
                 ELSE {Kind(70, 50, TRUE)} :
          DetUpdate([bpm |-> k.bpm, quality |-> k.quality,
                     stable |-> k.stable, t_ms |-> last_t_ms_ + RingStep])

DetInit ==
    /\ active_alarm_ = NONE
    /\ last_t_ms_ = 0
    /\ no_signal_since_ms_ = 0
    /\ abnormal_since_ms_ = 0
    /\ abnormal_kind_ = NONE
    /\ clear_since_ms_ = 0
    /\ hist_ = [i \in 0..(HIST_N - 1) |-> [bpm |-> 0, t_ms |-> 0]]
    /\ hist_wr_ = 0
    /\ hist_count_ = 0
    /\ det_ret = FALSE
    /\ out_event = AlarmEvent0
    /\ trace = <<>>

(***************************************************************************)
(* pulse_bpm.cpp: physiological limits                                     *)
(***************************************************************************)
BPM_MIN    == 40
BPM_MAX    == 180
IBI_MIN_MS == 60000 \div BPM_MAX
IBI_MAX_MS == 60000 \div BPM_MIN
IBI_BUF    == 5

Min(a, b) == IF a < b THEN a ELSE b

RES_NONE        == "NONE"
RES_PROVISIONAL == "PROVISIONAL"
RES_STABLE      == "STABLE"

(***************************************************************************)
(* PulseBpm::push_ibi                                                      *)
(***************************************************************************)
push_ibi(buf, cnt, ibi) == [buf EXCEPT ![cnt % IBI_BUF] = ibi]

(***************************************************************************)
(* PulseBpm::average_ibi                                                   *)
(***************************************************************************)
RECURSIVE SumSlots(_, _)
SumSlots(buf, n) == IF n <= 0 THEN 0 ELSE buf[n - 1] + SumSlots(buf, n - 1)

\* variant: the sum always divided by the ring capacity
average_ibi_capacity(buf, cnt) ==
    LET n == Min(cnt, IBI_BUF)
    IN  IF n <= 0 THEN 0 ELSE SumSlots(buf, n) \div IBI_BUF

average_ibi(buf, cnt) ==
    LET n == Min(cnt, IBI_BUF)
    IN  IF n <= 0 THEN 0 ELSE SumSlots(buf, n) \div n

(***************************************************************************)
(* PulseBpm::median_ibi: tmp[n / 2] of the sorted first n slots, i.e. the  *)
(* value with at most n/2 slots strictly below it and more than n/2 slots  *)
(* at or below it.                                                         *)
(***************************************************************************)
\* variant: tmp[(n - 1) / 2], the lower of the two middle values
median_ibi_lower(buf, cnt) ==
    LET n == Min(cnt, IBI_BUF)
    IN  IF n <= 0 THEN 0
        ELSE CHOOSE v \in {buf[i] : i \in 0..(n - 1)} :
                /\ Cardinality({i \in 0..(n - 1) : buf[i] < v}) <= (n - 1) \div 2
                /\ Cardinality({i \in 0..(n - 1) : buf[i] <= v}) > (n - 1) \div 2

median_ibi(buf, cnt) ==
    LET n == Min(cnt, IBI_BUF)
    IN  IF n <= 0 THEN 0
        ELSE CHOOSE v \in {buf[i] : i \in 0..(n - 1)} :
                /\ Cardinality({i \in 0..(n - 1) : buf[i] < v}) <= n \div 2
                /\ Cardinality({i \in 0..(n - 1) : buf[i] <= v}) > n \div 2

(***************************************************************************)
(* PulseBpm::register_beat, lines 173 and 179-188: the two rejections.     *)
(* ratio < 0.85f and ratio > 1.20f on the float quotient of two integers   *)
(* of at most 1500 decide as the exact quotient does: the quotient differs *)
(* from 17/20 and from 6/5 by nothing or by more than 1/30000.             *)
(***************************************************************************)
\* variant: the upper limit left out
OutOfRangeLowOnly(ibi) == ibi < IBI_MIN_MS

OutOfRange(ibi) == ibi < IBI_MIN_MS \/ ibi > IBI_MAX_MS

Inconsistent(buf, cnt, ibi) ==
    /\ cnt >= 3
    /\ LET med == median_ibi(buf, cnt)
       IN  med > 0 /\ (ibi * 100 < 85 * med \/ ibi * 100 > 120 * med)

(***************************************************************************)
(* PulseBpm::register_beat, line 194                                       *)
(***************************************************************************)
BpmOf(avg) == 60000 \div avg

(***************************************************************************)
(* PulseBpm::register_beat, lines 198-199: the result of an accepted beat, *)
(* from ibi_count_ after push_ibi.                                         *)
(***************************************************************************)
\* variant: the third accepted IBI still provisional
ResultOfLate(cnt) == IF cnt <= 3 THEN RES_PROVISIONAL ELSE RES_STABLE

ResultOf(cnt) == IF cnt < 3 THEN RES_PROVISIONAL ELSE RES_STABLE

(***************************************************************************)
(* PulseBpm::register_beat, line 170: is there a beat to measure from?     *)
(***************************************************************************)
\* variant: the beat measured from last_beat_ms_ whatever it holds
HasLastBeatAlways(last_beat) == TRUE

HasLastBeat(last_beat) == last_beat # 0

(***************************************************************************)
(* PulseBpm::register_beat: the new last_beat_ms_, ring, count, result and *)
(* out_bpm.  (int)(beat_ms - last_beat_ms_) keeps its value: the times of  *)
(* the model are far below 2^31.                                           *)
(***************************************************************************)
register_beat(beat_ms) ==
    LET ibi == beat_ms - last_beat_ms_
        buf == push_ibi(ibi_buf_, ibi_count_, ibi)
        cnt == ibi_count_ + 1
        avg == average_ibi(buf, cnt)
    IN  IF ~HasLastBeat(last_beat_ms_) THEN
            [last |-> beat_ms, buf |-> ibi_buf_, cnt |-> ibi_count_,
             res |-> RES_NONE, bpm |-> out_bpm,
             log |-> [what |-> "first", ibi |-> 0]]
        ELSE IF OutOfRange(ibi) THEN
            [last |-> beat_ms, buf |-> ibi_buf_, cnt |-> ibi_count_,
             res |-> RES_NONE, bpm |-> out_bpm,
             log |-> [what |-> "range", ibi |-> ibi]]
        ELSE IF Inconsistent(ibi_buf_, ibi_count_, ibi) THEN
            [last |-> beat_ms, buf |-> ibi_buf_, cnt |-> ibi_count_,
             res |-> RES_NONE, bpm |-> out_bpm,
             log |-> [what |-> "ratio", ibi |-> ibi]]
        ELSE IF avg > 0 THEN
            [last |-> beat_ms, buf |-> buf, cnt |-> cnt,
             res |-> ResultOf(cnt),
             bpm |-> BpmOf(avg),
             log |-> [what |-> "accepted", ibi |-> ibi]]
        ELSE
            [last |-> beat_ms, buf |-> buf, cnt |-> cnt,
             res |-> RES_NONE, bpm |-> out_bpm,
             log |-> [what |-> "zero", ibi |-> ibi]]

NoBeatLog == [what |-> "none", ibi |-> 0]

(***************************************************************************)
(* PulseBpm::reset.  baseline_, lp_, the envelope and the amplitude and    *)
(* noise averages are floats the beat timing below does not read; of the   *)
(* float state the model keeps env_inited_ and the sign of diff_prev_.     *)
(***************************************************************************)
PulseReset ==
    /\ env_inited_' = FALSE
    /\ last_beat_ms_' = 0
    /\ have_prev_' = FALSE
    /\ prev_t_ms_' = 0
    /\ diff_prev_' = 0
    /\ ibi_count_' = 0
    /\ ibi_buf_' = [i \in 0..(IBI_BUF - 1) |-> 0]
    /\ accepted' = <<>>
    /\ beat_log' = NoBeatLog
    /\ UNCHANGED <<pulse_ret, out_bpm, pulse_now, pulse_calls>>

(***************************************************************************)
(* PulseBpm::update, line 104: the amplitude gate.  On the first call      *)
(* after a reset update_envelope sets min = max, so p2p and p2p_ema_ are 0 *)
(* and the gate is shut; on later calls it depends on the float signal.    *)
(***************************************************************************)
GateOutcomes == IF env_inited_ THEN {TRUE, FALSE} ELSE {FALSE}

(***************************************************************************)
(* PulseBpm::update, lines 118-137: is the previous sample a beat?         *)
(*   diff   : sign of filt - prev_filt_ on this call (-1, 0, 1)            *)
(*   strong : prev_filt_ > thr and prominence > prom_req                   *)
(***************************************************************************)
\* variant: no refractory interval
RefractoryOkAlways == TRUE

RefractoryOk ==
    IF last_beat_ms_ = 0 THEN TRUE
    ELSE (prev_t_ms_ - last_beat_ms_) >= IBI_MIN_MS

IsBeat(diff, strong) ==
    /\ RefractoryOk
    /\ diff_prev_ > 0
    /\ diff <= 0
    /\ strong

\* the time handed to register_beat (line 146, after line 142)
BeatTime(t) == t

(***************************************************************************)
(* PulseBpm::update(raw, t_ms, out_bpm, out_quality).  The float signal    *)
(* chain of lines 50-101 enters through its three outcomes: the gate, the  *)
(* slope sign and the threshold/prominence test.                           *)
(***************************************************************************)
PulseUpdate(t, gate_open, diff, strong) ==
    /\ env_inited_' = TRUE
    /\ pulse_now' = t
    /\ pulse_calls' = pulse_calls + 1
    /\ IF ~gate_open THEN
          /\ have_prev_' = FALSE
          /\ pulse_ret' = RES_NONE
          /\ beat_log' = NoBeatLog
          /\ UNCHANGED <<prev_t_ms_, diff_prev_, last_beat_ms_, ibi_buf_,
                         ibi_count_, out_bpm, accepted>>
       ELSE IF ~have_prev_ THEN
          /\ prev_t_ms_' = t
          /\ have_prev_' = TRUE
          /\ diff_prev_' = 0
          /\ pulse_ret' = RES_NONE
          /\ beat_log' = NoBeatLog
          /\ UNCHANGED <<last_beat_ms_, ibi_buf_, ibi_count_, out_bpm, accepted>>
       ELSE
          /\ diff_prev_' = diff
          /\ prev_t_ms_' = t
          /\ UNCHANGED have_prev_
          /\ IF ~IsBeat(diff, strong) THEN
                /\ pulse_ret' = RES_NONE
                /\ beat_log' = IF diff_prev_ > 0 /\ diff <= 0 /\ strong
                               THEN [what |-> "refractory",
                                     ibi |-> prev_t_ms_ - last_beat_ms_]
                               ELSE NoBeatLog
                /\ UNCHANGED <<last_beat_ms_, ibi_buf_, ibi_count_, out_bpm,
                               accepted>>
             ELSE
                LET b == register_beat(BeatTime(t))
                IN  /\ last_beat_ms_' = b.last
                    /\ ibi_buf_' = b.buf
                    /\ ibi_count_' = b.cnt
                    /\ pulse_ret' = b.res
                    /\ out_bpm' = b.bpm
                    /\ beat_log' = b.log
                    /\ accepted' = IF b.res # RES_NONE
                                   THEN Append(accepted, b.log.ibi)
                                   ELSE accepted

(***************************************************************************)
(* The beat detector driven by an arbitrary caller: samples at increasing  *)
(* times, resets in between.                                               *)
(***************************************************************************)
SampleSteps == {350}
Signs       == {-1, 0, 1}

PulseSample ==
    /\ pulse_calls < MaxCalls
    /\ \E d \in SampleSteps, g \in GateOutcomes, diff \in Signs, strong \in BOOLEAN :
          PulseUpdate(pulse_now + d, g, diff, strong)

\* the beat detector on a clean pulse wave: the gate open whenever the
\* envelope exists, every peak above the threshold and prominent, the slope
\* up or down on each sample, the samples 500 or 700 ms apart
BeatSteps == {500, 700}
BeatSigns == {-1, 1}

WaveSample(steps, max_calls) ==
    /\ pulse_calls < max_calls
    /\ \E d \in steps, diff \in BeatSigns :
          PulseUpdate(pulse_now + d, TRUE \in GateOutcomes, diff, TRUE)

BeatSample == WaveSample(BeatSteps, MaxBeatCalls)

\* the same with samples 150 or 200 ms apart: peaks inside the refractory
\* interval
FastSteps == {150, 200}

FastSample == WaveSample(FastSteps, MaxFastCalls)

PulseResetCall ==
    /\ pulse_calls < MaxCalls
    /\ pulse_calls > 0
    /\ PulseReset

PulseInit ==
    /\ env_inited_ = FALSE
    /\ have_prev_ = FALSE
    /\ prev_t_ms_ = 0
    /\ diff_prev_ = 0
    /\ last_beat_ms_ = 0
    /\ ibi_buf_ = [i \in 0..(IBI_BUF - 1) |-> 0]
    /\ ibi_count_ = 0
    /\ pulse_ret = RES_NONE
    /\ out_bpm = 0
    /\ pulse_now = 0
    /\ pulse_calls = 0
    /\ beat_log = NoBeatLog
    /\ accepted = <<>>

(***************************************************************************)
(* The float signal chain of PulseBpm::update, lines 50-137, in fixed      *)
(* point: a float x is the integer floor(x * Scale).  A product by a       *)
(* constant c = num/den is (num * x) \div den, rounded down as \div does.  *)
(***************************************************************************)
Scale == 1000

Max(a, b) == IF a > b THEN a ELSE b

\* x + alpha * (target - x) with alpha = num / 100
Ema(x, num, target) == x + (num * (target - x)) \div 100

\* clampf of line 7.  variant: no upper limit
clampf_lower_only(v, lo, hi) == IF v < lo THEN lo ELSE v

clampf(v, lo, hi) == IF v < lo THEN lo ELSE IF v > hi THEN hi ELSE v

(***************************************************************************)
(* PulseBpm::update_envelope(x): the new env_min_ and env_max_             *)
(***************************************************************************)
\* variant: both bounds decay toward x, whichever side x is on
update_envelope_decay_only(x) ==
    IF ~env_inited_ THEN [min |-> x, max |-> x]
    ELSE [min |-> Ema(env_min_, 1, x), max |-> Ema(env_max_, 1, x)]

update_envelope(x) ==
    IF ~env_inited_ THEN [min |-> x, max |-> x]
    ELSE [min |-> IF x < env_min_ THEN x ELSE Ema(env_min_, 1, x),
          max |-> IF x > env_max_ THEN x ELSE Ema(env_max_, 1, x)]

(***************************************************************************)
(* PulseBpm::update, lines 50-101: the values computed from raw before the *)
(* gate.  q_stb reads ibi_count_ as it is before the beat of this call.    *)
(* The three terms of the quality are fixed point numbers; their weighted  *)
(* sum, the quality, is kept in hundredths like BpmReading::quality.       *)
(***************************************************************************)
Chain(raw) ==
    LET base  == Ema(baseline_, 1, raw * Scale)
        ac    == raw * Scale - base
        filt  == Ema(lp_, 18, ac)
        env   == update_envelope(filt)
        p2p   == env.max - env.min
        noise == IF have_prev_ THEN Ema(noise_ema_, 6, Abs(filt - prev_filt_))
                 ELSE noise_ema_
        ema   == IF p2p_ema_ <= 0 THEN p2p ELSE Ema(p2p_ema_, 4, p2p)
        pmin  == clampf(Max(18 * Scale, 8 * noise), 18 * Scale, 80 * Scale)
        thr   == Max(22 * Scale, Max((26 * ema) \div 100, 6 * noise))
        q_amp   == clampf(ema \div 140, 0, Scale)
        q_noise == clampf(Scale - noise \div 25, 0, Scale)
        q_stb   == clampf((Min(ibi_count_, 5) * Scale) \div 5, 0, Scale)
    IN  [base |-> base, filt |-> filt, env |-> env, noise |-> noise,
         ema |-> ema, pmin |-> pmin, thr |-> thr,
         quality |-> clampf((55 * q_amp + 30 * q_noise + 15 * q_stb) \div Scale,
                            0, 100)]

Sign(x) == IF x > 0 THEN 1 ELSE IF x < 0 THEN -1 ELSE 0

(***************************************************************************)
(* PulseBpm::update(raw, t_ms, out_bpm, out_quality) with the signal chain *)
(* computed: the gate of line 104, the slope of line 119 and the threshold *)
(* and prominence tests of lines 128-136 decide what PulseUpdate does.     *)
(* last_p2p_ is written and never read.                                    *)
(***************************************************************************)
update(raw, t_ms) ==
    LET c         == Chain(raw)
        gate_open == ~(c.ema < c.pmin)
        diff      == c.filt - prev_filt_
        strong    == /\ prev_filt_ > c.thr
                     /\ (prev_filt_ - c.env.min) > (50 * c.ema) \div 100
    IN  /\ baseline_' = c.base
        /\ lp_' = c.filt
        /\ env_min_' = c.env.min
        /\ env_max_' = c.env.max
        /\ noise_ema_' = c.noise
        /\ p2p_ema_' = c.ema
        /\ out_quality' = c.quality
        /\ prev_filt_' = IF gate_open THEN c.filt ELSE prev_filt_
        /\ updates_since_reset' = updates_since_reset + 1
        /\ PulseUpdate(t_ms, gate_open, Sign(diff), strong)

(***************************************************************************)
(* PulseBpm::reset(initial_raw)                                            *)
(***************************************************************************)
\* variant: only the baseline is seeded again
reset_baseline_only(initial_raw) ==
    /\ baseline_' = initial_raw * Scale
    /\ updates_since_reset' = 0
    /\ UNCHANGED <<lp_, env_min_, env_max_, prev_filt_, p2p_ema_, noise_ema_,
                   out_quality, pulseVars>>

reset(initial_raw) ==
    /\ baseline_' = initial_raw * Scale
    /\ lp_' = 0
    /\ env_min_' = 0
    /\ env_max_' = 0
    /\ prev_filt_' = 0
    /\ p2p_ema_' = 0
    /\ noise_ema_' = 0
    /\ updates_since_reset' = 0
    /\ UNCHANGED out_quality
    /\ PulseReset

(***************************************************************************)
(* The beat detector driven by raw samples: every sequence of samples from *)
(* RawValues at increasing times, with resets in between.                  *)
(***************************************************************************)
RawValues == {2000, 2100, 2300, 4000}

SignalSample ==
    /\ pulse_calls < MaxSamples
    /\ \E raw \in RawValues, d \in SampleSteps : update(raw, pulse_now + d)

SignalReset ==
    /\ pulse_calls < MaxSamples
    /\ \E raw \in RawValues : reset(raw)

\* the members as the in-class initialisers of pulse_bpm.h leave them
SignalInit ==
    /\ baseline_ = 0
    /\ lp_ = 0
    /\ env_min_ = 0
    /\ env_max_ = 0
    /\ prev_filt_ = 0
    /\ p2p_ema_ = 0
    /\ noise_ema_ = 0
    /\ out_quality = 0
    /\ updates_since_reset = 0

(***************************************************************************)
(* heart_monitor_tasks.cpp: sampler_task                                   *)
(***************************************************************************)
WARMUP_MS        == 1500
SETTLING_TIME_MS == 1500
RAW_NEAR_ZERO    == 50
STEP_TRANSIENT   == 600

BOOT_WARMUP == "BOOT_WARMUP"
SETTLING    == "SETTLING"
RUNNING     == "RUNNING"

\* a queue of length 1: xQueueOverwrite replaces what the queue holds
xQueueOverwrite(q, item) == <<item>>

\* variant: a step of exactly STEP_TRANSIENT counts, a low raw does not
contact_transient_step_only(raw, prev) == Abs(raw - prev) >= STEP_TRANSIENT

contact_transient(raw, prev) ==
    (raw < RAW_NEAR_ZERO) \/ (Abs(raw - prev) > STEP_TRANSIENT)

\* line 361 and line 371: is the warm-up, is the settling period over?
\* variant: the settling period is over as soon as it has begun
SettlingOverAtOnce(t, until) == t >= until - SETTLING_TIME_MS

SettlingOver(t, until) == t >= until

\* line 388: is the result of update published?
\* variant: only a stable result is published
ShouldPublishStable(res) == res = RES_STABLE

ShouldPublish(res) == res # RES_NONE

\* observer: a contact transient as the sampler's contract words it
TransientSample(raw, prev) == raw < 50 \/ Abs(raw - prev) > 600

\* the observer's record of an iteration
Iteration(raw, t, fed, did_reset, wrote) ==
    [raw |-> raw, prev |-> last_raw, t |-> t,
     before |-> state, after |-> state', fed |-> fed, did_reset |-> did_reset,
     res |-> IF fed THEN pulse_ret' ELSE RES_NONE,
     published |-> wrote, q_before |-> g_bpm_q,
     first |-> entered_running,
     fresh |-> (ibi_count_ = 0 /\ last_beat_ms_ = 0 /\ ~env_inited_
                /\ ~have_prev_ /\ updates_since_reset = 0)]

(***************************************************************************)
(* One iteration of the loop of sampler_task, lines 352-402, on the sample *)
(* raw read at time now; the task then sleeps and the clock advances by d. *)
(***************************************************************************)
SamplerIteration(raw, d) ==
    LET t         == now
        transient == contact_transient(raw, last_raw)
    IN  /\ last_raw' = raw
        /\ now' = now + d
        /\ iters' = iters + 1
        /\ last_transient_ms' = IF TransientSample(raw, last_raw) THEN t
                                ELSE last_transient_ms
        /\ UNCHANGED <<warmup_until, boot_ms, in_loop>>
        /\ IF state = BOOT_WARMUP THEN
              /\ IF SettlingOver(t, warmup_until)
                 THEN state' = SETTLING /\ settling_until' = t + SETTLING_TIME_MS
                 ELSE UNCHANGED <<state, settling_until>>
              /\ entered_running' = FALSE
              /\ it' = Iteration(raw, t, FALSE, FALSE, FALSE)
              /\ UNCHANGED <<pulseVars, signalVars, g_bpm_q>>
           ELSE
              LET state1 == IF transient THEN SETTLING ELSE state
                  until1 == IF transient THEN t + SETTLING_TIME_MS
                            ELSE settling_until
              IN  /\ settling_until' = until1
                  /\ IF state1 = SETTLING THEN
                        /\ IF SettlingOver(t, until1)
                           THEN /\ reset(raw)
                                /\ state' = RUNNING
                                /\ entered_running' = TRUE
                                /\ it' = Iteration(raw, t, FALSE, TRUE, FALSE)
                           ELSE /\ state' = SETTLING
                                /\ entered_running' = FALSE
                                /\ it' = Iteration(raw, t, FALSE, FALSE, FALSE)
                                /\ UNCHANGED <<pulseVars, signalVars>>
                        /\ UNCHANGED g_bpm_q
                     ELSE
                        /\ update(raw, t)
                        /\ UNCHANGED state
                        /\ entered_running' = FALSE
                        /\ g_bpm_q' =
                              IF ShouldPublish(pulse_ret')
                              THEN xQueueOverwrite(g_bpm_q,
                                      [bpm |-> out_bpm', quality |-> out_quality',
                                       stable |-> (pulse_ret' = RES_STABLE),
                                       t_ms |-> t])
                              ELSE g_bpm_q
                        /\ it' = Iteration(raw, t, TRUE, FALSE,
                                           ShouldPublish(pulse_ret'))

(***************************************************************************)
(* The same iteration with the signal chain left out: whether the sample   *)
(* is a contact transient and the slope of the filtered signal are inputs, *)
(* the amplitude gate is open whenever it can be and every peak is strong  *)
(* (PulseUpdate), the raw value stays what it was and the quality of a     *)
(* published reading is 0.50.  The readings written to the BPM mailbox are *)
(* recorded in published.                                                  *)
(***************************************************************************)
FeedDelays == {500}

FeedIteration(transient, diff, d, max_iters) ==
    LET t == now
        r == [bpm |-> out_bpm', quality |-> 50,
              stable |-> (pulse_ret' = RES_STABLE), t_ms |-> t]
    IN  /\ in_loop
        /\ iters < max_iters
        /\ now' = now + d
        /\ iters' = iters + 1
        /\ last_transient_ms' = IF transient THEN t ELSE last_transient_ms
        /\ UNCHANGED <<warmup_until, boot_ms, in_loop, last_raw>>
        /\ IF state = BOOT_WARMUP THEN
              /\ IF SettlingOver(t, warmup_until)
                 THEN state' = SETTLING /\ settling_until' = t + SETTLING_TIME_MS
                 ELSE UNCHANGED <<state, settling_until>>
              /\ entered_running' = FALSE
              /\ it' = Iteration(last_raw, t, FALSE, FALSE, FALSE)
              /\ UNCHANGED <<pulseVars, signalVars, g_bpm_q, published>>
           ELSE
              LET state1 == IF transient THEN SETTLING ELSE state
                  until1 == IF transient THEN t + SETTLING_TIME_MS
                            ELSE settling_until
              IN  /\ settling_until' = until1
                  /\ IF state1 = SETTLING THEN
                        /\ IF SettlingOver(t, until1)
                           THEN /\ reset(last_raw)
                                /\ state' = RUNNING
                                /\ entered_running' = TRUE
                                /\ it' = Iteration(last_raw, t, FALSE, TRUE, FALSE)
                           ELSE /\ state' = SETTLING
                                /\ entered_running' = FALSE
                                /\ it' = Iteration(last_raw, t, FALSE, FALSE, FALSE)
                                /\ UNCHANGED <<pulseVars, signalVars>>
                        /\ UNCHANGED <<g_bpm_q, published>>
                     ELSE
                        /\ PulseUpdate(t, TRUE \in GateOutcomes, diff, TRUE)
                        /\ UNCHANGED <<state, signalVars>>
                        /\ entered_running' = FALSE
                        /\ g_bpm_q' = IF ShouldPublish(pulse_ret')
                                      THEN xQueueOverwrite(g_bpm_q, r)
                                      ELSE g_bpm_q
                        /\ published' = IF ShouldPublish(pulse_ret')
                                        THEN Append(published, r)
                                        ELSE published
                        /\ it' = Iteration(last_raw, t, TRUE, FALSE,
                                           ShouldPublish(pulse_ret'))

SamplerRaws   == {40, 100, 700}
SamplerDelays == {500, 750}
SamplerStarts == {100}

\* sampler_task up to its loop, lines 337-350
SamplerStart(raw0) ==
    /\ ~in_loop
    /\ in_loop' = TRUE
    /\ reset(raw0)
    /\ state' = BOOT_WARMUP
    /\ boot_ms' = now
    /\ warmup_until' = now + WARMUP_MS
    /\ settling_until' = 0
    /\ last_raw' = raw0
    /\ UNCHANGED <<iters, it, last_transient_ms, entered_running, sharedVars>>

SamplerStep ==
    /\ in_loop
    /\ iters < MaxIters
    /\ \E raw \in SamplerRaws, d \in SamplerDelays : SamplerIteration(raw, d)

NoIteration ==
    [raw |-> 0, prev |-> 0, t |-> 0, before |-> BOOT_WARMUP,
     after |-> BOOT_WARMUP, fed |-> FALSE, did_reset |-> FALSE,
     res |-> RES_NONE, published |-> FALSE, q_before |-> <<>>, first |-> FALSE, fresh |-> TRUE]

\* sampler_task has not run yet; the BPM queue is empty
SamplerInit ==
    /\ in_loop = FALSE
    /\ state = BOOT_WARMUP
    /\ now \in SamplerStarts
    /\ boot_ms = 0
    /\ warmup_until = 0
    /\ settling_until = 0
    /\ last_raw = 0
    /\ g_bpm_q = <<>>
    /\ iters = 0
    /\ it = NoIteration
    /\ last_transient_ms = -1
    /\ entered_running = FALSE

(***************************************************************************)
(* heart_monitor_tasks.cpp: startup, detector_task and the mailboxes.      *)
(* A queue is the sequence of the items it holds; until                    *)
(* heart_monitor_start has run (started) the three handles are null.       *)
(***************************************************************************)
BpmReading0 == [bpm |-> 0, quality |-> 0, stable |-> FALSE, t_ms |-> 0]

\* xQueuePeek(q, &item, 0): pdTRUE and the item at the front, or pdFALSE; the
\* queue is left as it is
xQueuePeek(q, default) ==
    IF q = <<>> THEN [ok |-> FALSE, item |-> default]
    ELSE [ok |-> TRUE, item |-> Head(q)]

\* app_main, lines 57-62: with Wi-Fi up, ml_rx_start runs before
\* heart_monitor_start
ml_rx_start ==
    /\ ~started /\ ~ml_rx_running
    /\ ml_rx_running' = TRUE
    /\ UNCHANGED <<started, g_alarm_q, g_bpm_ml_q, last, have_last, tnow, dt_pc,
                   wake_at, published, pub_at_peek, last_write,
                   ml_before_start, ml_calls, peeked, sharedVars>>

\* heart_monitor_start: the queues are created, the alarm queue is seeded,
\* the tasks are created
\* variant: the alarm queue is left empty
heart_monitor_start_unseeded ==
    /\ ~started
    /\ started' = TRUE
    /\ wake_at' = now
    /\ UNCHANGED <<ml_rx_running, g_alarm_q, g_bpm_ml_q, last, have_last, tnow,
                   dt_pc, published, pub_at_peek, last_write, ml_before_start,
                   ml_calls, peeked, sharedVars>>

heart_monitor_start ==
    LET init_alarm == [type |-> NONE, bpm |-> 0, quality |-> 0, t_ms |-> now]
    IN  /\ ~started
        /\ started' = TRUE
        /\ g_alarm_q' = xQueueOverwrite(g_alarm_q, init_alarm)
        /\ last_write' = [last_write EXCEPT !.alarm = <<init_alarm>>]
        /\ wake_at' = now
        /\ UNCHANGED <<ml_rx_running, g_bpm_ml_q, last, have_last, tnow, dt_pc,
                       published, pub_at_peek, ml_before_start, ml_calls,
                       peeked, sharedVars>>

\* heart_monitor_set_bpm_ml(bpm_ml), called by ml_rx_task for a datagram
\* with 0 < bpm_corr < 260
heart_monitor_set_bpm_ml(bpm_ml) ==
    /\ ml_rx_running
    /\ ml_calls < MaxMlWrites
    /\ ml_calls' = ml_calls + 1
    /\ g_bpm_ml_q' = IF ~started THEN g_bpm_ml_q
                     ELSE xQueueOverwrite(g_bpm_ml_q, bpm_ml)
    /\ last_write' = [last_write EXCEPT !.ml = <<bpm_ml>>]
    /\ ml_before_start' = ~started
    /\ UNCHANGED <<ml_rx_running, started, g_alarm_q, last, have_last, tnow,
                   dt_pc, wake_at, published, pub_at_peek, peeked, sharedVars>>

\* sampler_task, lines 388-396, seen from the other tasks: the reading of an
\* accepted beat is published with the time of its sample; accepted beats
\* are at least IBI_MIN_MS apart
Publish(k) ==
    LET r == [bpm |-> k.bpm, quality |-> k.quality, stable |-> k.stable,
              t_ms |-> now]
    IN  /\ started
        /\ Len(published) < MaxPublishes
        /\ published # <<>> => now - published[Len(published)].t_ms >= IBI_MIN_MS
        /\ g_bpm_q' = xQueueOverwrite(g_bpm_q, r)
        /\ published' = Append(published, r)
        /\ last_write' = [last_write EXCEPT !.bpm = <<r>>]
        /\ UNCHANGED <<now, ml_rx_running, started, g_alarm_q, g_bpm_ml_q, last,
                       have_last, tnow, dt_pc, wake_at, pub_at_peek,
                       ml_before_start, ml_calls, peeked>>

\* detector_task, line 414: tnow = now_ms(), once the sleep is over
DetectorClock(max_ticks) ==
    /\ started /\ dt_pc = "clock"
    /\ now >= wake_at
    /\ Len(trace) < max_ticks
    /\ tnow' = now
    /\ dt_pc' = "peek"
    /\ UNCHANGED <<ml_rx_running, started, g_alarm_q, g_bpm_ml_q, last, have_last,
                   wake_at, published, pub_at_peek, last_write,
                   ml_before_start, ml_calls, peeked, sharedVars, detVars>>

DetectorReadClock == DetectorClock(MaxTicks)

\* line 436: is the last reading stale?
\* variant: stale at 3000 ms already
StaleFrom3000(t_now, t_last) == (t_now - t_last) >= 3000

Stale(t_now, t_last) == (t_now - t_last) > 3000

\* detector_task, lines 422-441: the input of the anomaly detector
\* variant: the corrected BPM, when there is one, replaces the bpm of the
\* forwarded reading
DetectorInputCorrected(have, lst, t_now) ==
    IF ~have THEN [bpm |-> 0, quality |-> 0, stable |-> FALSE, t_ms |-> t_now]
    ELSE IF Stale(t_now, lst.t_ms)
         THEN [bpm |-> 0, quality |-> 0, stable |-> FALSE, t_ms |-> t_now]
         ELSE [lst EXCEPT !.t_ms = t_now,
                          !.bpm = xQueuePeek(g_bpm_ml_q, lst.bpm).item]

DetectorInput(have, lst, t_now) ==
    IF ~have THEN [bpm |-> 0, quality |-> 0, stable |-> FALSE, t_ms |-> t_now]
    ELSE IF Stale(t_now, lst.t_ms)
         THEN [bpm |-> 0, quality |-> 0, stable |-> FALSE, t_ms |-> t_now]
         ELSE [lst EXCEPT !.t_ms = t_now]

\* detector_task, lines 416-449: the rest of the iteration, then the sleep
DetectorPeekAndUpdate(d) ==
    LET p     == xQueuePeek(g_bpm_q, BpmReading0)
        last1 == IF p.ok THEN p.item ELSE last
        have1 == p.ok \/ have_last
    IN  /\ dt_pc = "peek"
        /\ last' = last1
        /\ have_last' = have1
        /\ DetUpdate(DetectorInput(have1, last1, tnow))
        /\ g_alarm_q' = IF det_ret' THEN xQueueOverwrite(g_alarm_q, out_event')
                        ELSE g_alarm_q
        /\ last_write' = IF det_ret'
                         THEN [last_write EXCEPT !.alarm = <<out_event'>>]
                         ELSE last_write
        /\ pub_at_peek' = published
        /\ wake_at' = now + d
        /\ dt_pc' = "clock"
        /\ UNCHANGED <<ml_rx_running, started, g_bpm_ml_q, tnow, published,
                       ml_before_start, ml_calls, peeked, sharedVars>>

\* a reader (lcd_task, telemetry_task through heart_monitor_peek_bpm and
\* heart_monitor_peek_alarm, heart_monitor_peek_bpm_ml) peeks a mailbox
Boxes == {"bpm", "alarm", "ml"}

Box(b) == IF b = "bpm" THEN g_bpm_q ELSE IF b = "alarm" THEN g_alarm_q
          ELSE g_bpm_ml_q

Peek(b) ==
    /\ peeked' = [box |-> b, ok |-> xQueuePeek(Box(b), 0).ok, q |-> Box(b)]
    /\ UNCHANGED <<ml_rx_running, started, g_alarm_q, g_bpm_ml_q, last, have_last,
                   tnow, dt_pc, wake_at, published, pub_at_peek, last_write,
                   ml_before_start, ml_calls, sharedVars>>

\* the clock advances
TimePasses(d) ==
    /\ now < TimeHorizon
    /\ now' = now + d
    /\ UNCHANGED <<g_bpm_q, taskVars>>

\* the clock advances while detector_task sleeps in vTaskDelay (line 449);
\* the task runs as soon as its delay is over.  heart_monitor_start runs
\* within the first second.
SleepPasses(d) ==
    /\ now < StaleHorizon
    /\ IF started THEN dt_pc = "clock" /\ now < wake_at ELSE now = 0
    /\ now' = now + d
    /\ UNCHANGED <<g_bpm_q, taskVars>>

PublishKinds == {Kind(70, 50, TRUE), Kind(140, 10, FALSE)}
MlValues     == {72, 80}
TimeSteps    == {1000, 2000}
DetectorSleeps == {1000}
DownlinkSteps  == {1000}
DownlinkKinds  == {Kind(70, 50, TRUE)}

TaskInit ==
    /\ ml_rx_running = FALSE
    /\ started = FALSE
    /\ g_alarm_q = <<>>
    /\ g_bpm_ml_q = <<>>
    /\ last = BpmReading0
    /\ have_last = FALSE
    /\ tnow = 0
    /\ dt_pc = "clock"
    /\ wake_at = 0
    /\ published = <<>>
    /\ pub_at_peek = <<>>
    /\ last_write = [bpm |-> <<>>, alarm |-> <<>>, ml |-> <<>>]
    /\ ml_before_start = FALSE
    /\ ml_calls = 0
    /\ peeked = [box |-> "bpm", ok |-> FALSE, q |-> <<>>]

(***************************************************************************)
(* wifi_telemetry.cpp: telemetry_task.  A line is the record of the five   *)
(* fields snprintf formats: t_ms, bpm, the quality to 3 decimals (in       *)
(* thousandths), stable as 0 or 1 and the numeric alarm code.              *)
(***************************************************************************)
AlarmCode(type) ==
    CASE type = NONE -> 0 [] type = NO_SIGNAL -> 1 [] type = BRADYCARDIA -> 2
      [] type = TACHYCARDIA -> 3 [] type = RAPID_CHANGE -> 4

Line(br, type) ==
    [t_ms |-> br.t_ms, bpm |-> br.bpm, quality |-> br.quality * 10,
     stable |-> IF br.stable THEN 1 ELSE 0, alarm_type |-> AlarmCode(type)]

\* app_main, line 61: with Wi-Fi up, telemetry_start runs before
\* heart_monitor_start
telemetry_start ==
    /\ ~started /\ ~tele_running /\ ~ml_rx_running
    /\ tele_running' = TRUE
    /\ UNCHANGED <<last_sent_bpm_t_ms, sent, polls>>

\* line 163: is the peeked reading a new one?
\* variant: every peeked reading is sent
IsNewReadingAlways(t_ms, last_sent) == TRUE

IsNewReading(t_ms, last_sent) == t_ms # last_sent

\* telemetry_task, lines 159-188: one iteration of the loop.  Before
\* heart_monitor_start the queue handles are null and both peeks fail.
telemetry_iteration ==
    LET br == xQueuePeek(g_bpm_q, BpmReading0)
        ae == xQueuePeek(g_alarm_q, AlarmEvent0)
        send == br.ok /\ IsNewReading(br.item.t_ms, last_sent_bpm_t_ms)
    IN  /\ tele_running
        /\ polls < MaxPolls
        /\ polls' = IF send THEN 0 ELSE polls + 1
        /\ last_sent_bpm_t_ms' = IF send THEN br.item.t_ms
                                 ELSE last_sent_bpm_t_ms
        /\ sent' = IF send
                   THEN Append(sent, Line(br.item,
                                          IF ae.ok THEN ae.item.type ELSE NONE))
                   ELSE sent
        /\ UNCHANGED tele_running

TeleInit ==
    /\ tele_running = FALSE
    /\ last_sent_bpm_t_ms = -1
    /\ sent = <<>>
    /\ polls = 0

(***************************************************************************)
(* lcd_task, lines 513-559: what one iteration of the loop caches and      *)
(* chooses to show.  Lines 561-653 draw it: they write the display, the    *)
(* blink and flash timers and the last drawn values, and read none of the  *)
(* mailboxes.                                                              *)
(***************************************************************************)
BPM_STALE_MS == 3000
ML_STALE_MS  == 3000

lcd_iteration ==
    LET t   == now
        r   == xQueuePeek(g_bpm_q, BpmReading0)
        \* lines 518-527
        hr1 == r.ok \/ have_raw_bpm
        rb  == IF r.ok THEN r.item.bpm ELSE raw_bpm
        rt  == IF r.ok THEN r.item.t_ms ELSE raw_bpm_t_ms
        hr2 == hr1 /\ ~((t - rt) > BPM_STALE_MS)
        \* lines 530-546
        m   == xQueuePeek(g_bpm_ml_q, 0)
        sane == m.ok /\ m.item > 0 /\ m.item < 260
        take == sane /\ (~have_ml_bpm \/ m.item # ml_bpm)
        mb  == IF take THEN m.item ELSE ml_bpm
        hm1 == take \/ have_ml_bpm
        mt  == IF take THEN t ELSE ml_bpm_rx_ms
        hm2 == hm1 /\ ~((t - mt) > ML_STALE_MS)
        \* lines 549-553
        a   == xQueuePeek(g_alarm_q, AlarmEvent0)
        \* observer: a corrected BPM unlike the one peeked before
        fresh == sane /\ ml_last_peek # <<m.item>>
    IN  /\ started
        /\ have_raw_bpm' = hr2
        /\ raw_bpm' = rb
        /\ raw_bpm_t_ms' = rt
        /\ have_ml_bpm' = hm2
        /\ ml_bpm' = mb
        /\ ml_bpm_rx_ms' = mt
        /\ alarm' = IF a.ok THEN a.item.type ELSE alarm
        /\ alarm_bpm' = IF a.ok THEN a.item.bpm ELSE alarm_bpm
        /\ lcd_t' = t
        /\ shown' = [have |-> hm2 \/ hr2,
                     bpm |-> IF hm2 THEN mb ELSE IF hr2 THEN rb ELSE 0,
                     corrected |-> hm2]
        /\ ml_last_peek' = IF sane THEN <<m.item>> ELSE ml_last_peek
        /\ ml_seen_ms' = IF fresh THEN t ELSE ml_seen_ms

LcdInit ==
    /\ have_raw_bpm = FALSE
    /\ raw_bpm = 0
    /\ raw_bpm_t_ms = 0
    /\ have_ml_bpm = FALSE
    /\ ml_bpm = 0
    /\ ml_bpm_rx_ms = 0
    /\ alarm = NONE
    /\ alarm_bpm = 0
    /\ lcd_t = 0
    /\ shown = [have |-> FALSE, bpm |-> 0, corrected |-> FALSE]
    /\ ml_last_peek = <<>>
    /\ ml_seen_ms = -1

Init == /\ DetInit /\ PulseInit /\ SignalInit /\ SamplerInit /\ TaskInit
        /\ TeleInit /\ LcdInit

(***************************************************************************)
(* SpecDetector: the anomaly state machine under every sequence of ticks.  *)
(* SpecPulse: the beat detector under every sequence of samples and resets.*)
(* SpecBeats: the beat detector under every sequence of peaks of a clean   *)
(* pulse wave.                                                             *)
(* SpecFast: the same with peaks closer than the refractory interval.      *)
(* SpecSignal: the beat detector with its signal chain, under every        *)
(* sequence of raw samples and resets.                                     *)
(* SpecSampler: sampler_task with its beat detector and the BPM mailbox,   *)
(* under every sequence of raw samples and sleep lengths.                  *)
(* SpecTasks: detector_task with its anomaly detector, interleaved with    *)
(* the sampler as the publisher of readings.                               *)
(* SpecMailbox: startup, the writers and the readers of the mailboxes,     *)
(* interleaved.                                                            *)
(* SpecDownlink: SpecTasks with ml_rx_task writing corrected BPMs in        *)
(* between.                                                                *)
(* SpecTelemetry: telemetry_task polling the BPM mailbox while the sampler *)
(* publishes.                                                              *)
(* SpecLcd: lcd_task polling the three mailboxes while the sampler         *)
(* publishes and ml_rx_task delivers corrected BPMs.                       *)
(***************************************************************************)
FeedNext ==
    /\ \/ SamplerStart(100) /\ UNCHANGED published
       \/ \E transient \in BOOLEAN, diff \in BeatSigns, d \in FeedDelays :
             FeedIteration(transient, diff, d, MaxFeedIters)
    /\ UNCHANGED <<ml_rx_running, started, g_alarm_q, g_bpm_ml_q, last,
                   have_last, tnow, dt_pc, wake_at, pub_at_peek, last_write,
                   ml_before_start, ml_calls, peeked>>
    /\ UNCHANGED <<detVars, teleVars, lcdVars>>
\* the same with telemetry_task polling the BPM mailbox
FeedTeleNext ==
    /\ \/ telemetry_start
             /\ UNCHANGED <<samplerVars, sharedVars, pulseVars, signalVars,
                            published>>
       \/ SamplerStart(100) /\ UNCHANGED <<published, teleVars>>
       \/ /\ \E transient \in BOOLEAN, diff \in BeatSigns, d \in FeedDelays :
               FeedIteration(transient, diff, d, MaxTeleIters)
          /\ UNCHANGED teleVars
       \/ telemetry_iteration
             /\ UNCHANGED <<samplerVars, sharedVars, pulseVars, signalVars,
                            published>>
    /\ UNCHANGED <<ml_rx_running, started, g_alarm_q, g_bpm_ml_q, last,
                   have_last, tnow, dt_pc, wake_at, pub_at_peek, last_write,
                   ml_before_start, ml_calls, peeked>>
    /\ UNCHANGED <<detVars, lcdVars>>
SettleNext  == /\ SettleTick
               /\ UNCHANGED <<pulseVars, signalVars, samplerVars, sharedVars,
                              taskVars, teleVars, lcdVars>>
RingNext    == /\ RingTick
               /\ UNCHANGED <<pulseVars, signalVars, samplerVars, sharedVars,
                              taskVars, teleVars, lcdVars>>
DetNext     == /\ DetTick
               /\ UNCHANGED <<pulseVars, signalVars, samplerVars, sharedVars,
                              taskVars, teleVars, lcdVars>>
PulseNext   == /\ PulseSample \/ PulseResetCall
               /\ UNCHANGED <<detVars, signalVars, samplerVars, sharedVars,
                              taskVars, teleVars, lcdVars>>
BeatsNext   == /\ BeatSample
               /\ UNCHANGED <<detVars, signalVars, samplerVars, sharedVars,
                              taskVars, teleVars, lcdVars>>
FastNext    == /\ FastSample
               /\ UNCHANGED <<detVars, signalVars, samplerVars, sharedVars,
                              taskVars, teleVars, lcdVars>>
SignalNext  == /\ SignalSample \/ SignalReset
               /\ UNCHANGED <<detVars, samplerVars, sharedVars, taskVars,
                              teleVars, lcdVars>>
SamplerNext == /\ (\E raw0 \in SamplerRaws : SamplerStart(raw0)) \/ SamplerStep
               /\ UNCHANGED <<detVars, taskVars, teleVars, lcdVars>>
TaskNext    ==
    /\ \/ heart_monitor_start /\ UNCHANGED detVars
       \/ \E k \in PublishKinds : Publish(k) /\ UNCHANGED detVars
       \/ DetectorReadClock
       \/ \E d \in DetectorSleeps : DetectorPeekAndUpdate(d)
       \/ \E d \in TimeSteps : TimePasses(d) /\ UNCHANGED detVars
    /\ UNCHANGED <<pulseVars, signalVars, samplerVars, teleVars, lcdVars>>
MailboxNext ==
    /\ \/ ml_rx_start
       \/ heart_monitor_start
       \/ \E v \in MlValues : heart_monitor_set_bpm_ml(v)
       \/ \E k \in PublishKinds : Publish(k)
       \/ \E b \in Boxes : Peek(b)
       \/ \E d \in TimeSteps : TimePasses(d)
    /\ UNCHANGED <<detVars, pulseVars, signalVars, samplerVars, teleVars,
                   lcdVars>>

TelemetryNext ==
    /\ \/ telemetry_start /\ UNCHANGED <<taskVars, sharedVars>>
       \/ heart_monitor_start /\ UNCHANGED teleVars
       \/ \E k \in PublishKinds : Publish(k) /\ UNCHANGED teleVars
       \/ telemetry_iteration /\ UNCHANGED <<taskVars, sharedVars>>
       \/ \E d \in TimeSteps : TimePasses(d) /\ UNCHANGED teleVars
    /\ UNCHANGED <<detVars, pulseVars, signalVars, samplerVars, lcdVars>>
LcdNext ==
    /\ \/ ml_rx_start /\ UNCHANGED lcdVars
       \/ heart_monitor_start /\ UNCHANGED lcdVars
       \/ \E v \in MlValues : heart_monitor_set_bpm_ml(v) /\ UNCHANGED lcdVars
       \/ \E k \in PublishKinds : Publish(k) /\ UNCHANGED lcdVars
       \/ lcd_iteration /\ UNCHANGED <<taskVars, sharedVars>>
       \/ \E d \in TimeSteps : TimePasses(d) /\ UNCHANGED lcdVars
    /\ UNCHANGED <<detVars, pulseVars, signalVars, samplerVars, teleVars>>
DownlinkNext ==
    /\ \/ ml_rx_start /\ UNCHANGED detVars
       \/ heart_monitor_start /\ UNCHANGED detVars
       \/ \E v \in MlValues : heart_monitor_set_bpm_ml(v) /\ UNCHANGED detVars
       \/ \E k \in DownlinkKinds : Publish(k) /\ UNCHANGED detVars
       \/ DetectorReadClock
       \/ \E d \in DetectorSleeps : DetectorPeekAndUpdate(d)
       \/ \E d \in DownlinkSteps : TimePasses(d) /\ UNCHANGED detVars
    /\ UNCHANGED <<pulseVars, signalVars, samplerVars, teleVars, lcdVars>>

\* detector_task ticking on time for StaleHorizon ms while the sampler
\* publishes readings of accepted beats during the first PublishHorizon ms
StaleDetector ==
    /\ \/ DetectorClock(MaxStaleTicks)
       \/ \E d \in DetectorSleeps : DetectorPeekAndUpdate(d)
    /\ UNCHANGED <<pulseVars, signalVars, samplerVars, teleVars, lcdVars>>
StaleClock ==
    /\ \E d \in DownlinkSteps : SleepPasses(d)
    /\ UNCHANGED <<detVars, pulseVars, signalVars, samplerVars, teleVars,
                   lcdVars>>
StaleNext ==
    \/ /\ \/ heart_monitor_start
          \/ \E k \in {x \in RingKinds : x.bpm > 0} :
                now <= PublishHorizon /\ Publish(k)
       /\ UNCHANGED <<detVars, pulseVars, signalVars, samplerVars, teleVars,
                      lcdVars>>
    \/ StaleDetector
    \/ StaleClock

\* the caller keeps ticking
SpecSettle   == Init /\ [][SettleNext]_vars /\ WF_vars(SettleNext)
SpecRing     == Init /\ [][RingNext]_vars
SpecDetector == Init /\ [][DetNext]_vars
SpecPulse    == Init /\ [][PulseNext]_vars
SpecBeats    == Init /\ [][BeatsNext]_vars
SpecFast     == Init /\ [][FastNext]_vars
SpecSignal   == Init /\ [][SignalNext]_vars
SpecFeed     == Init /\ [][FeedNext]_vars
SpecFeedTele == Init /\ [][FeedTeleNext]_vars
SpecSampler  == Init /\ [][SamplerNext]_vars
SpecTasks    == Init /\ [][TaskNext]_vars
SpecMailbox  == Init /\ [][MailboxNext]_vars
SpecDownlink == Init /\ [][DownlinkNext]_vars
SpecTelemetry == Init /\ [][TelemetryNext]_vars
SpecLcd      == Init /\ [][LcdNext]_vars
\* the loop of detector_task never ends and the clock never stops
SpecStale    == /\ Init /\ [][StaleNext]_vars
                /\ WF_vars(StaleDetector) /\ WF_vars(StaleClock)

(***************************************************************************)
(* Vocabulary of the properties: the ticks made so far                     *)
(***************************************************************************)
Ticks  == 1..Len(trace)
TimeOf(i) == trace[i].r.t_ms

\* a normal usable reading: quality >= 0.25, stable, 45 <= bpm <= 130
NormalReading(r) ==
    /\ r.quality >= min_quality_for_bpm /\ r.stable
    /\ r.bpm >= brady_bpm /\ r.bpm <= tachy_bpm
UsableReading(r) == r.quality >= min_quality_for_bpm /\ r.stable
BradyReading(r)  == UsableReading(r) /\ r.bpm > 0 /\ r.bpm < brady_bpm
TachyReading(r)  == UsableReading(r) /\ r.bpm > tachy_bpm
LowQuality(r)    == r.quality < min_quality_for_bpm
NoSignalReading(r) == r.quality < min_quality_for_bpm \/ r.bpm <= 0

\* ticks i..j all carry a reading of the class P, and the run starts at i
AllNormal(i, j)   == \A k \in i..j : NormalReading(trace[k].r)
AllBrady(i, j)    == \A k \in i..j : BradyReading(trace[k].r)
AllTachy(i, j)    == \A k \in i..j : TachyReading(trace[k].r)
AllLow(i, j)      == \A k \in i..j : LowQuality(trace[k].r)
AllNoSignal(i, j) == \A k \in i..j : NoSignalReading(trace[k].r)

\* j is the first tick at least d ms after tick i
FirstAtLeast(i, j, d) ==
    /\ i <= j
    /\ TimeOf(j) - TimeOf(i) >= d
    /\ \A k \in i..(j - 1) : TimeOf(k) - TimeOf(i) < d

\* the ticks that emitted an event, in order
EventTicks == {i \in Ticks : trace[i].emitted}

(***************************************************************************)
(* C1: update returns true on a tick exactly when the tick's final         *)
(* candidate differs from the alarm active before the tick; the event      *)
(* carries the new active alarm; two consecutive events never carry the    *)
(* same kind, the first event is never NONE, and a tick without an event   *)
(* leaves the active alarm unchanged.                                      *)
(***************************************************************************)
C1_EdgeTriggered ==
    /\ \A i \in Ticks :
          /\ trace[i].emitted <=> (trace[i].final # trace[i].before)
          /\ trace[i].emitted => /\ trace[i].ev = trace[i].final
                                 /\ trace[i].after = trace[i].final
          /\ ~trace[i].emitted => trace[i].after = trace[i].before
          /\ i > 1 => trace[i].before = trace[i - 1].after
    /\ \A i \in EventTicks :
          /\ (\A k \in 1..(i - 1) : ~trace[k].emitted) => trace[i].ev # NONE
          /\ \A j \in EventTicks :
                (j < i /\ \A k \in (j + 1)..(i - 1) : ~trace[k].emitted)
                    => trace[j].ev # trace[i].ev
    /\ det_ret = (Len(trace) > 0 /\ trace[Len(trace)].emitted)
    /\ Len(trace) > 0 => active_alarm_ = trace[Len(trace)].after

\* two events have been emitted and a later tick held the alarm silently
C1_Witness ==
    \E i, j, k \in Ticks :
        /\ i < j /\ j < k
        /\ trace[i].emitted /\ trace[j].emitted
        /\ ~trace[k].emitted /\ trace[k].cand = NONE /\ trace[k].final # NONE

(***************************************************************************)
(* C2: a NONE (clearing) event is emitted only at a tick at which normal   *)
(* readings have been present continuously for at least 3000 ms.           *)
(***************************************************************************)
C2_ClearOnlyAfterNormal ==
    \A j \in Ticks :
        (trace[j].emitted /\ trace[j].ev = NONE)
            => \E i \in 1..j : AllNormal(i, j) /\ TimeOf(j) - TimeOf(i) >= clear_ms

(***************************************************************************)
(* C3: with an alarm active, if every tick from tick i (time t1) on        *)
(* carries a normal usable reading, then at the first tick with            *)
(* t - t1 >= 3000 the active alarm is NONE and a NONE event has been       *)
(* emitted since t1.                                                       *)
(***************************************************************************)
C3_NormalClears ==
    \A i, j \in Ticks :
        ( /\ trace[i].before # NONE
          /\ FirstAtLeast(i, j, clear_ms)
          /\ AllNormal(i, j) )
            => /\ trace[j].after = NONE
               /\ \E k \in i..j : trace[k].emitted /\ trace[k].ev = NONE

(***************************************************************************)
(* C4: with TACHYCARDIA active, when the readings return to a usable       *)
(* normal bpm = 75, the alarm stays TACHYCARDIA without any event on every *)
(* tick of the first 2000 ms, and the only event of the normal run is a    *)
(* NONE event once the run has lasted 3000 ms.                             *)
(***************************************************************************)
C4_ScenarioD ==
    \A i, j \in Ticks :
        ( /\ i <= j
          /\ trace[i].before = TACHYCARDIA
          /\ i > 1 /\ TachyReading(trace[i - 1].r)
          /\ \A k \in i..j : NormalReading(trace[k].r) /\ trace[k].r.bpm = 75 )
            => /\ (TimeOf(j) - TimeOf(i) <= 2000)
                    => (trace[j].after = TACHYCARDIA /\ ~trace[j].emitted)
               /\ trace[j].emitted
                    => (trace[j].ev = NONE /\ TimeOf(j) - TimeOf(i) >= clear_ms)

(***************************************************************************)
(* C5: starting from no active alarm, a run of usable readings with        *)
(* 0 < bpm < 45 that starts at tick i (time t0, t0 = 0 included) emits a   *)
(* BRADYCARDIA event exactly at the first tick with t - t0 >= 5000 and at  *)
(* no earlier tick; likewise TACHYCARDIA for bpm > 130.                    *)
(***************************************************************************)
RunStart(i, P(_)) == P(trace[i].r) /\ (i > 1 => ~P(trace[i - 1].r))

SustainedFires(i, j, kind) ==
    /\ trace[j].emitted /\ trace[j].ev = kind
    /\ \A k \in i..(j - 1) : ~(trace[k].emitted /\ trace[k].ev = kind)

C5_SustainAt5000 ==
    \A i, j \in Ticks :
        /\ ( /\ trace[i].before = NONE
             /\ RunStart(i, BradyReading)
             /\ FirstAtLeast(i, j, sustain_ms)
             /\ AllBrady(i, j) )
               => SustainedFires(i, j, BRADYCARDIA)
        /\ ( /\ trace[i].before = NONE
             /\ RunStart(i, TachyReading)
             /\ FirstAtLeast(i, j, sustain_ms)
             /\ AllTachy(i, j) )
               => SustainedFires(i, j, TACHYCARDIA)

\* the same statement for runs that start at a time t0 > 0
C5_SustainAt5000_Positive ==
    \A i, j \in Ticks :
        /\ ( /\ trace[i].before = NONE /\ TimeOf(i) > 0
             /\ RunStart(i, BradyReading)
             /\ FirstAtLeast(i, j, sustain_ms)
             /\ AllBrady(i, j) )
               => SustainedFires(i, j, BRADYCARDIA)
        /\ ( /\ trace[i].before = NONE /\ TimeOf(i) > 0
             /\ RunStart(i, TachyReading)
             /\ FirstAtLeast(i, j, sustain_ms)
             /\ AllTachy(i, j) )
               => SustainedFires(i, j, TACHYCARDIA)

(***************************************************************************)
(* C6: a tick with quality < 0.25 never emits a BRADYCARDIA, TACHYCARDIA   *)
(* or RAPID_CHANGE event, whatever its bpm; and a run of such ticks that   *)
(* starts with no alarm active emits at most one event, a NO_SIGNAL event. *)
(***************************************************************************)
C6_LowQualityOnlyNoSignal ==
    /\ \A i \in Ticks :
          LowQuality(trace[i].r)
              => ~(trace[i].emitted
                   /\ trace[i].ev \in {BRADYCARDIA, TACHYCARDIA, RAPID_CHANGE})
    /\ \A i, j \in Ticks :
          (i <= j /\ trace[i].before = NONE /\ AllLow(i, j))
              => /\ \A k \in i..j : trace[k].emitted => trace[k].ev = NO_SIGNAL
                 /\ Cardinality({k \in i..j : trace[k].emitted}) <= 1

\* low quality with a tachycardic bpm for 5000 ms and more: one NO_SIGNAL event
C6_Witness ==
    \E i, j \in Ticks :
        /\ i < j /\ trace[i].before = NONE /\ AllLow(i, j)
        /\ \A k \in i..j : trace[k].r.bpm > tachy_bpm /\ trace[k].r.stable
        /\ TimeOf(j) - TimeOf(i) >= sustain_ms
        /\ \E k \in i..j : trace[k].emitted /\ trace[k].ev = NO_SIGNAL
        /\ active_alarm_ = NO_SIGNAL

(***************************************************************************)
(* C7: if quality < 0.25 or bpm <= 0 holds on every tick from tick i (time *)
(* t0, t0 = 0 included), the active alarm is NO_SIGNAL at the first tick   *)
(* with t - t0 >= 3000, whatever alarm was active before.                  *)
(***************************************************************************)
C7_NoSignalAt3000 ==
    \A i, j \in Ticks :
        ( /\ RunStart(i, NoSignalReading)
          /\ FirstAtLeast(i, j, no_signal_ms)
          /\ AllNoSignal(i, j) )
            => trace[j].after = NO_SIGNAL

\* the same statement for runs that start at a time t0 > 0
C7_NoSignalAt3000_Positive ==
    \A i, j \in Ticks :
        ( /\ TimeOf(i) > 0
          /\ RunStart(i, NoSignalReading)
          /\ FirstAtLeast(i, j, no_signal_ms)
          /\ AllNoSignal(i, j) )
            => trace[j].after = NO_SIGNAL

(***************************************************************************)
(* C8: the rapid-change condition on the history ring, stated on the ring  *)
(* entries themselves: some entry other than the newest is strictly        *)
(* earlier than the newest, within 5000 ms of it, and |delta bpm| >= 35.   *)
(***************************************************************************)
RingSlots  == IF hist_count_ < HIST_N THEN 0..(hist_count_ - 1) ELSE 0..(HIST_N - 1)
NewestSlot == (hist_wr_ + HIST_N - 1) % HIST_N

RapidCondition ==
    \E s \in RingSlots \ {NewestSlot} :
        LET dt == hist_[NewestSlot].t_ms - hist_[s].t_ms
        IN  /\ dt > 0 /\ dt <= rapid_change_window_ms
            /\ Abs(hist_[NewestSlot].bpm - hist_[s].bpm) >= rapid_change_delta_bpm

LastTick == trace[Len(trace)]

ScenarioE ==
    /\ Len(trace) >= 2
    /\ trace[1].r = [bpm |-> 70, quality |-> 50, stable |-> TRUE, t_ms |-> 0]
    /\ trace[2].r = [bpm |-> 110, quality |-> 50, stable |-> TRUE, t_ms |-> 2000]

\* C8 as claimed: on a tick with a usable reading and no sustained
\* brady/tachy candidate, the candidate is RAPID_CHANGE iff the rapid-change
\* condition holds on the ring
C8_RapidIff ==
    (Len(trace) > 0 /\ UsableReading(LastTick.r) /\ LastTick.sust = NONE)
        => (LastTick.cand = RAPID_CHANGE <=> RapidCondition)

\* C8 as amended: the same, on ticks on which NO_SIGNAL is not due; and
\* usable bpm = 70 at t = 0 then bpm = 110 at t = 2000 give a RAPID_CHANGE
\* event at t = 2000
C8_RapidIffNoSignalNotDue ==
    /\ (Len(trace) > 0 /\ UsableReading(LastTick.r) /\ ~LastTick.due
                       /\ LastTick.sust = NONE)
          => (LastTick.cand = RAPID_CHANGE <=> RapidCondition)
    /\ ScenarioE => /\ trace[2].emitted /\ trace[2].ev = RAPID_CHANGE
                    /\ ~trace[1].emitted

C8_Witness ==
    /\ ScenarioE /\ Len(trace) = 2
    /\ out_event = [type |-> RAPID_CHANGE, bpm |-> 110, quality |-> 50, t_ms |-> 2000]

(***************************************************************************)
(* Vocabulary of the PulseBpm properties                                   *)
(***************************************************************************)
RECURSIVE SumSeq(_)
SumSeq(q) == IF q = <<>> THEN 0 ELSE Head(q) + SumSeq(Tail(q))

\* the most recent min(count, 5) IBIs accepted since the last reset
RecentCount == Min(Len(accepted), IBI_BUF)
Recent      == SubSeq(accepted, Len(accepted) - RecentCount + 1, Len(accepted))

\* the last call was an update that returned Provisional or Stable
BeatAccepted == beat_log.what = "accepted" /\ pulse_ret \in {RES_PROVISIONAL, RES_STABLE}

\* round(60000 / (sum / n)) for positive sum and n, halves rounded up
RoundedBpm(sum, n) == (2 * 60000 * n + sum) \div (2 * sum)

(***************************************************************************)
(* C9 as claimed: after an accepted beat the reported bpm equals           *)
(* round(60000 / average of the most recent min(count,5) accepted IBIs).   *)
(***************************************************************************)
C9_BpmRounded ==
    BeatAccepted => out_bpm = RoundedBpm(SumSeq(Recent), RecentCount)

(***************************************************************************)
(* C9 as amended: after an accepted beat the reported bpm equals           *)
(* 60000 div (sum div n) in truncating integer division, the sum taken     *)
(* over exactly the most recent n = min(count,5) IBIs accepted since the   *)
(* last reset.                                                             *)
(***************************************************************************)
C9_BpmTruncated ==
    BeatAccepted =>
        /\ ibi_count_ = Len(accepted)
        /\ out_bpm = 60000 \div (SumSeq(Recent) \div RecentCount)

\* a stable beat after the ring has wrapped, the dropped IBI unlike the newest,
\* and the truncated bpm unlike the rounded one
C9_Witness ==
    /\ BeatAccepted /\ pulse_ret = RES_STABLE
    /\ Len(accepted) > IBI_BUF
    /\ accepted[Len(accepted) - IBI_BUF] # accepted[Len(accepted)]
    /\ out_bpm # RoundedBpm(SumSeq(Recent), RecentCount)

(***************************************************************************)
(* C10: each of the first min(ibi_count,5) slots of the IBI ring holds a   *)
(* value in [333, 1500]; a beat whose IBI is outside that range leaves the *)
(* ring as it was.                                                         *)
(***************************************************************************)
C10_RingInRange ==
    /\ \A i \in 0..(Min(ibi_count_, IBI_BUF) - 1) :
          ibi_buf_[i] >= 333 /\ ibi_buf_[i] <= 1500
    /\ \A k \in 1..Len(accepted) : accepted[k] >= 333 /\ accepted[k] <= 1500
    /\ (beat_log.what = "accepted") => (beat_log.ibi >= 333 /\ beat_log.ibi <= 1500)

\* a beat with an IBI above 1500 ms has just been rejected with IBIs on record
C10_Witness ==
    /\ beat_log.what = "range" /\ beat_log.ibi > 1500
    /\ pulse_ret = RES_NONE
    /\ ibi_count_ >= 1

(***************************************************************************)
(* C11: an accepted beat yields Provisional when fewer than 3 IBIs, the    *)
(* one just accepted included, have been accepted since the last reset,    *)
(* and Stable otherwise.                                                   *)
(***************************************************************************)
C11_ProvisionalThenStable ==
    BeatAccepted =>
        /\ Len(accepted) >= 1
        /\ (Len(accepted) < 3) => pulse_ret = RES_PROVISIONAL
        /\ (Len(accepted) >= 3) => pulse_ret = RES_STABLE

\* the third IBI accepted since the reset has just been reported Stable
C11_Witness ==
    /\ BeatAccepted /\ Len(accepted) = 3 /\ ibi_count_ = 3
    /\ pulse_ret = RES_STABLE

(***************************************************************************)
(* C12: the update call that immediately follows a reset returns NONE,     *)
(* whatever the raw values and whatever the state before the reset.        *)
(***************************************************************************)
C12_FirstUpdateAfterResetNone ==
    updates_since_reset = 1 => pulse_ret = RES_NONE

\* a beat had been accepted, then a reset, then one update with a raw value
\* far from the one given to reset
C12_Witness ==
    /\ updates_since_reset = 1 /\ out_bpm > 0
    /\ env_inited_ /\ ~have_prev_ /\ accepted = <<>>
    /\ Abs(lp_) > 100 * Scale

(***************************************************************************)
(* C13: the quality returned by every update call lies in [0, 1].          *)
(***************************************************************************)
C13_QualityInUnitInterval ==
    out_quality >= 0 /\ out_quality <= 100

\* an amplitude far above full scale (140 counts), where only the upper limit
\* of clampf keeps the amplitude term at 1, and no noise: 0.55 + 0.30
C13_Witness ==
    /\ pulse_calls > 0 /\ p2p_ema_ > 250 * Scale /\ noise_ema_ = 0
    /\ out_quality = 85

(***************************************************************************)
(* C14: after every update call env_min_ <= filtered value <= env_max_,    *)
(* so the peak-to-peak env_max_ - env_min_ is never negative.              *)
(***************************************************************************)
C14_EnvelopeBracketsSignal ==
    /\ env_min_ <= lp_ /\ lp_ <= env_max_
    /\ env_max_ - env_min_ >= 0

\* both bounds have decayed: the signal is strictly inside the envelope
C14_Witness ==
    /\ updates_since_reset >= 3
    /\ env_min_ < lp_ /\ lp_ < env_max_

(***************************************************************************)
(* Vocabulary of the sampler properties: the last iteration of the loop    *)
(***************************************************************************)
ItTransient == TransientSample(it.raw, it.prev)
ItAccepted  == it.fed /\ it.res \in {RES_PROVISIONAL, RES_STABLE}

(***************************************************************************)
(* C15: update is called only in an iteration that begins and ends in      *)
(* RUNNING; an iteration that begins in BOOT_WARMUP or SETTLING feeds no    *)
(* sample and leaves the BPM mailbox alone; BOOT_WARMUP is never followed   *)
(* by RUNNING; and no update call is made earlier than 3000 ms after the    *)
(* start.                                                                   *)
(***************************************************************************)
C15_FeedOnlyWhenRunning ==
    /\ it.fed => (it.before = RUNNING /\ it.after = RUNNING)
    /\ it.before \in {BOOT_WARMUP, SETTLING}
          => (~it.fed /\ ~it.published /\ g_bpm_q = it.q_before)
    /\ it.before = BOOT_WARMUP => it.after \in {BOOT_WARMUP, SETTLING}
    /\ it.fed => (it.t >= boot_ms + 3000 /\ pulse_now = it.t)
    /\ pulse_calls > 0 => pulse_now >= boot_ms + 3000
    /\ state = it.after

\* the first update call, made as early as the sleeps of the model allow
C15_Witness ==
    /\ it.fed /\ pulse_calls = 1
    /\ it.t = boot_ms + 3000 + 500

(***************************************************************************)
(* C16: a transient sample (raw < 50 or |raw - previous raw| > 600) seen    *)
(* in RUNNING moves the sampler to SETTLING in that iteration and is not    *)
(* fed; and a sample is fed only when at least 1500 ms have passed since    *)
(* the most recent transient sample.                                        *)
(***************************************************************************)
C16_TransientSettles ==
    /\ (it.before = RUNNING /\ ItTransient) => (it.after = SETTLING /\ ~it.fed)
    /\ ItTransient => ~it.fed
    /\ (it.fed /\ last_transient_ms >= 0) => it.t - last_transient_ms >= 1500

\* a sample is fed again after a transient that interrupted RUNNING
C16_Witness ==
    /\ it.fed /\ updates_since_reset = 1 /\ pulse_calls >= 2
    /\ last_transient_ms > boot_ms + 3000
    /\ it.t - last_transient_ms >= 1500

(***************************************************************************)
(* C17: an iteration that goes from SETTLING to RUNNING resets the          *)
(* detector with its raw sample, which is no transient; and the first       *)
(* update call after entering RUNNING finds the detector as reset left it.  *)
(***************************************************************************)
C17_ResetOnEnteringRunning ==
    /\ (it.before # RUNNING /\ it.after = RUNNING)
          => /\ it.before = SETTLING /\ it.did_reset /\ ~ItTransient
             /\ baseline_ = it.raw * Scale
             /\ ibi_count_ = 0 /\ last_beat_ms_ = 0 /\ updates_since_reset = 0
    /\ it.did_reset => (it.before = SETTLING /\ it.after = RUNNING)
    /\ entered_running <=> it.did_reset
    /\ (it.fed /\ it.first) => (it.fresh /\ updates_since_reset = 1)
    /\ (it.fed /\ updates_since_reset = 1) => it.first

\* the first update of a second RUNNING period, the first one having armed
\* the slope logic
C17_Witness ==
    /\ it.fed /\ it.first /\ it.fresh
    /\ pulse_calls >= 3

(***************************************************************************)
(* C18: the BPM mailbox is overwritten exactly in the iterations whose      *)
(* update returns PROVISIONAL or STABLE, with the bpm and quality of that   *)
(* call, stable = (result is STABLE) and t_ms = the sample time; every      *)
(* other iteration leaves the mailbox as it was; a written mailbox never    *)
(* becomes empty.                                                           *)
(***************************************************************************)
C18_PublishOnAcceptedBeat ==
    /\ it.published <=> ItAccepted
    /\ ItAccepted
          => g_bpm_q = << [bpm |-> out_bpm, quality |-> out_quality,
                           stable |-> (it.res = RES_STABLE), t_ms |-> it.t] >>
    /\ ~ItAccepted => g_bpm_q = it.q_before
    /\ it.q_before # <<>> => g_bpm_q # <<>>
    /\ Len(g_bpm_q) <= 1

\* the first reading is published: provisional, 40 to 180 bpm
C18_Witness ==
    /\ it.published /\ it.res = RES_PROVISIONAL /\ it.q_before = <<>>
    /\ Len(g_bpm_q) = 1
    /\ g_bpm_q[1].t_ms = it.t /\ ~g_bpm_q[1].stable
    /\ g_bpm_q[1].bpm >= BPM_MIN /\ g_bpm_q[1].bpm <= BPM_MAX

(***************************************************************************)
(* Vocabulary of the task properties                                       *)
(***************************************************************************)
SyntheticNoSignal(t) == [bpm |-> 0, quality |-> 0, stable |-> FALSE, t_ms |-> t]

\* the latest reading published when detector_task last peeked
LatestAtPeek == pub_at_peek[Len(pub_at_peek)]

\* detector_task has completed a tick and not begun the next one
TickDone == Len(trace) > 0 /\ dt_pc = "clock"

(***************************************************************************)
(* C19: on every tick at tnow the anomaly detector is given the synthetic  *)
(* reading {0, 0, false, tnow} when nothing has been published or the      *)
(* latest published reading is more than 3000 ms older than tnow, and      *)
(* otherwise the latest published reading with t_ms replaced by tnow; the  *)
(* peek leaves the reading in the mailbox.                                 *)
(***************************************************************************)
C19_DetectorInput ==
    /\ TickDone =>
          /\ LastTick.r =
                IF pub_at_peek = <<>> THEN SyntheticNoSignal(tnow)
                ELSE IF tnow - LatestAtPeek.t_ms > 3000
                     THEN SyntheticNoSignal(tnow)
                     ELSE [LatestAtPeek EXCEPT !.t_ms = tnow]
          /\ have_last <=> pub_at_peek # <<>>
          /\ have_last => last = LatestAtPeek
    /\ g_bpm_q = IF published = <<>> THEN <<>>
                 ELSE <<published[Len(published)]>>

\* four ticks around one publication: nothing published yet, the reading
\* forwarded twice (the second time exactly 3000 ms old), the reading stale
C19_Witness ==
    /\ TickDone /\ Len(trace) = 4 /\ Len(published) = 1
    /\ published[1].bpm > 0
    /\ trace[1].r = SyntheticNoSignal(trace[1].r.t_ms)
    /\ trace[1].r.t_ms < published[1].t_ms
    /\ trace[2].r = [published[1] EXCEPT !.t_ms = trace[2].r.t_ms]
    /\ trace[3].r = [published[1] EXCEPT !.t_ms = published[1].t_ms + 3000]
    /\ trace[4].r = SyntheticNoSignal(tnow)
    /\ tnow - published[1].t_ms > 3000

(***************************************************************************)
(* C20: each mailbox holds at most one item; once a write call has been    *)
(* made on a mailbox, the mailbox holds the item of the most recent write  *)
(* call, whatever the readers did; a peek returns that item and leaves the *)
(* mailbox as it is.                                                       *)
(***************************************************************************)
C20_LatestValueWins ==
    /\ \A b \in Boxes :
          /\ Len(Box(b)) <= 1
          /\ last_write[b] # <<>> => Box(b) = last_write[b]
    /\ peeked.ok => Len(peeked.q) = 1

\* the same, for the corrected-BPM mailbox only when its last write call
\* was made after heart_monitor_start
C20_LatestValueWins_Started ==
    /\ \A b \in Boxes :
          /\ Len(Box(b)) <= 1
          /\ (last_write[b] # <<>> /\ ~(b = "ml" /\ ml_before_start))
                => Box(b) = last_write[b]
    /\ peeked.ok => Len(peeked.q) = 1

(***************************************************************************)
(* Vocabulary of the downlink property                                     *)
(***************************************************************************)
\* the variables of the alarm path: the clock, the BPM mailbox, the locals
\* and position of detector_task, the anomaly detector, the alarm mailbox
AlarmPath == <<now, g_bpm_q, published, pub_at_peek, last, have_last, tnow,
               dt_pc, wake_at, detVars, g_alarm_q>>

\* what the readings published by the sampler and the clock alone make the
\* input of a tick
SensorInput ==
    IF pub_at_peek = <<>> \/ tnow - LatestAtPeek.t_ms > 3000
    THEN SyntheticNoSignal(tnow)
    ELSE [LatestAtPeek EXCEPT !.t_ms = tnow]

\* the event of the last tick that emitted one
LastEventTick == CHOOSE k \in EventTicks : \A j \in EventTicks : j <= k

EventOf(k) == [type |-> trace[k].ev, bpm |-> trace[k].r.bpm,
               quality |-> trace[k].r.quality, t_ms |-> trace[k].r.t_ms]

(***************************************************************************)
(* C21: with corrected-BPM messages arriving at any time and in any        *)
(* number, the input of every tick of the anomaly detector is what the     *)
(* published readings and the clock alone determine; the alarm mailbox     *)
(* holds the seed until a tick emits an event and the last emitted event   *)
(* from then on; and a step that delivers a corrected BPM, or changes the  *)
(* corrected-BPM mailbox, changes nothing on the alarm path.               *)
(***************************************************************************)
C21_AlarmPathIgnoresDownlink ==
    /\ [](TickDone => LastTick.r = SensorInput)
    /\ [](g_alarm_q = IF ~started THEN <<>>
                      ELSE IF EventTicks = {}
                           THEN <<[AlarmEvent0 EXCEPT !.t_ms = g_alarm_q[1].t_ms]>>
                           ELSE <<EventOf(LastEventTick)>>)
    /\ [][(ml_calls' # ml_calls \/ g_bpm_ml_q' # g_bpm_ml_q)
             => UNCHANGED AlarmPath]_vars

\* two corrected BPMs have been delivered, the second one is in its mailbox,
\* and the detector has raised RAPID_CHANGE on the reading the sampler
\* published
C21_Witness ==
    /\ TickDone /\ ml_calls = 2 /\ ~ml_before_start
    /\ g_bpm_ml_q = <<80>>
    /\ LastTick.r.bpm = 70 /\ LastTick.emitted /\ LastTick.ev = RAPID_CHANGE
    /\ g_alarm_q[1].type = RAPID_CHANGE /\ g_alarm_q[1].bpm = 70

(***************************************************************************)
(* C22: the lines telemetry_task has sent carry pairwise different t_ms,   *)
(* so no reading is sent twice and no two consecutive lines carry the same *)
(* t_ms, however often the mailbox is polled; every line is a published    *)
(* reading, in the order of publication; and last_sent_bpm_t_ms is the     *)
(* t_ms of the last line.                                                  *)
(***************************************************************************)
C22_NoDuplicateLines ==
    /\ \A i, j \in 1..Len(sent) : i # j => sent[i].t_ms # sent[j].t_ms
    /\ \A i \in 1..Len(sent) :
          \E k \in 1..Len(published) :
              /\ sent[i] = Line(published[k], NONE)
              /\ \A j \in 1..(i - 1) :
                    \E h \in 1..(k - 1) : sent[j].t_ms = published[h].t_ms
    /\ last_sent_bpm_t_ms = IF sent = <<>> THEN -1 ELSE sent[Len(sent)].t_ms

\* two readings published and sent, then the unchanged mailbox polled twice
C22_Witness ==
    /\ Len(published) = 2 /\ Len(sent) = 2
    /\ polls >= 2
    /\ g_bpm_q = <<published[2]>>
    /\ sent[2].t_ms = published[2].t_ms /\ sent[1].t_ms = published[1].t_ms

(***************************************************************************)
(* Vocabulary of the display property: lcd_task has completed an           *)
(* iteration; the age, at that iteration, of the corrected BPM it holds,   *)
(* counted from the iteration that first peeked that value.                *)
(***************************************************************************)
LcdDone == lcd_t > 0

CorrectedSeen == ml_seen_ms >= 0
CorrectedAge  == lcd_t - ml_seen_ms

RawShown == shown = [have |-> have_raw_bpm,
                     bpm |-> IF have_raw_bpm THEN raw_bpm ELSE 0,
                     corrected |-> FALSE]

(***************************************************************************)
(* C23: after every iteration of lcd_task, a corrected BPM that is at most *)
(* 3000 ms old is the BPM shown; a corrected BPM that has not been         *)
(* replaced by a different one for more than 3000 ms is not shown: the raw *)
(* BPM is, or none.                                                        *)
(***************************************************************************)
C23_CorrectedGoesStale ==
    LcdDone =>
        /\ (CorrectedSeen /\ CorrectedAge <= ML_STALE_MS)
              => shown = [have |-> TRUE, bpm |-> ml_last_peek[1],
                          corrected |-> TRUE]
        /\ (CorrectedSeen /\ CorrectedAge > ML_STALE_MS) => RawShown
        /\ ~CorrectedSeen => RawShown

\* the part of C23 that the code keeps: a corrected BPM at most 3000 ms old
\* is shown, and when no corrected BPM is shown the raw one is, or none
C23_FreshCorrectedShown ==
    LcdDone =>
        /\ (CorrectedSeen /\ CorrectedAge <= ML_STALE_MS)
              => shown = [have |-> TRUE, bpm |-> ml_last_peek[1],
                          corrected |-> TRUE]
        /\ ~shown.corrected => RawShown
        /\ ~CorrectedSeen => RawShown

(***************************************************************************)
(* Vocabulary of the beat properties.  A step registers a beat when it is  *)
(* an update call that moves last_beat_ms_; with a beat on record before,  *)
(* the distance moved is the IBI of the beat.                              *)
(***************************************************************************)
UpdateStep == pulse_calls' = pulse_calls + 1

BeatStep == UpdateStep /\ last_beat_ms_' # last_beat_ms_

IbiStep == BeatStep /\ last_beat_ms_ # 0

StepIbi == last_beat_ms_' - last_beat_ms_

\* the step leaves the ring, the count and the reported bpm alone, returns
\* NONE and moves last_beat_ms_ to the time of the beat
RejectedStep ==
    /\ pulse_ret' = RES_NONE
    /\ ibi_buf_' = ibi_buf_ /\ ibi_count_' = ibi_count_
    /\ accepted' = accepted /\ out_bpm' = out_bpm
    /\ last_beat_ms_' = pulse_now'

\* the k-th smallest element of a non-empty sequence of numbers
KthSmallest(q, k) ==
    CHOOSE v \in {q[i] : i \in 1..Len(q)} :
        /\ Cardinality({i \in 1..Len(q) : q[i] < v}) < k
        /\ Cardinality({i \in 1..Len(q) : q[i] <= v}) >= k

\* twice the median: the middle value, or the mean of the two middle values
TwiceMedian(q) ==
    IF Len(q) % 2 = 1 THEN 2 * KthSmallest(q, (Len(q) + 1) \div 2)
    ELSE KthSmallest(q, Len(q) \div 2) + KthSmallest(q, Len(q) \div 2 + 1)

\* the middle value, or the upper of the two middle values
UpperMiddle(q) == KthSmallest(q, Len(q) \div 2 + 1)

OutsideIbiRange(ibi) == ibi < 333 \/ ibi > 1500

(***************************************************************************)
(* C24 as claimed: a beat whose IBI is outside [333, 1500], or, with at    *)
(* least 3 IBIs accepted since the reset, whose IBI is below 0.85 times or *)
(* above 1.20 times the median of the last <= 5 accepted IBIs, is          *)
(* rejected: NONE, ring and count unchanged, last_beat_ms_ moved to the    *)
(* beat.  The median of four IBIs is the mean of the two middle ones.      *)
(***************************************************************************)
C24_RejectOffMedian ==
    [][IbiStep =>
          ((\/ OutsideIbiRange(StepIbi)
            \/ /\ Len(accepted) >= 3
               /\ \/ StepIbi * 200 < 85 * TwiceMedian(Recent)
                  \/ StepIbi * 200 > 120 * TwiceMedian(Recent))
              => RejectedStep)]_vars

(***************************************************************************)
(* C24 as amended: the same, the IBI compared with the middle value of the *)
(* last <= 5 accepted IBIs in sorted order, which for four IBIs is the     *)
(* upper of the two middle ones.                                           *)
(***************************************************************************)
C24_RejectOffUpperMiddle ==
    [][IbiStep =>
          ((\/ OutsideIbiRange(StepIbi)
            \/ /\ Len(accepted) >= 3
               /\ \/ StepIbi * 100 < 85 * UpperMiddle(Recent)
                  \/ StepIbi * 100 > 120 * UpperMiddle(Recent))
              => RejectedStep)]_vars

\* a beat has just been rejected for its ratio with four IBIs on record
\* whose two middle values differ: its IBI is below 0.85 times the upper one
\* and not below 0.85 times their mean
C24_Witness ==
    /\ beat_log.what = "ratio" /\ pulse_ret = RES_NONE
    /\ Len(accepted) = 4 /\ ibi_count_ = 4
    /\ TwiceMedian(accepted) # 2 * UpperMiddle(accepted)
    /\ beat_log.ibi * 100 < 85 * UpperMiddle(accepted)
    /\ beat_log.ibi * 200 >= 85 * TwiceMedian(accepted)
    /\ last_beat_ms_ = pulse_now

(***************************************************************************)
(* C25: a reset leaves no beat on record; the first beat registered after  *)
(* it returns NONE, leaves the ring empty and the count 0 and sets         *)
(* last_beat_ms_; an update returns PROVISIONAL or STABLE only when a beat *)
(* was on record before the call and the call registers another one.       *)
(***************************************************************************)
EmptyRing == ibi_count_ = 0 /\ \A i \in 0..(IBI_BUF - 1) : ibi_buf_[i] = 0

C25_FirstPeakArms ==
    /\ [](last_beat_ms_ = 0 => (EmptyRing /\ accepted = <<>>))
    /\ [][/\ (pulse_calls' = pulse_calls) => last_beat_ms_' = 0
          /\ (BeatStep /\ last_beat_ms_ = 0)
                => /\ pulse_ret' = RES_NONE /\ EmptyRing' /\ out_bpm' = out_bpm
                   /\ last_beat_ms_' = pulse_now'
          /\ (UpdateStep /\ pulse_ret' # RES_NONE)
                => (last_beat_ms_ # 0 /\ BeatStep)]_vars

\* a reading had been reported, the detector was reset, and the first peak
\* after the reset has just armed the timing
C25_Witness ==
    /\ beat_log.what = "first" /\ pulse_ret = RES_NONE
    /\ out_bpm > 0 /\ EmptyRing
    /\ last_beat_ms_ = pulse_now

(***************************************************************************)
(* C26: with sample times that increase, a beat is registered at least     *)
(* 333 ms after the beat registered before it since the reset; and an      *)
(* update whose previous sample, the peak, lies less than 333 ms after the *)
(* last registered beat returns NONE and leaves last_beat_ms_, the ring    *)
(* and the count as they were.                                             *)
(***************************************************************************)
C26_Refractory ==
    [][/\ IbiStep => StepIbi >= 333
       /\ (UpdateStep /\ last_beat_ms_ # 0 /\ have_prev_
                      /\ prev_t_ms_ - last_beat_ms_ < 333)
             => /\ pulse_ret' = RES_NONE
                /\ UNCHANGED <<last_beat_ms_, ibi_buf_, ibi_count_, accepted,
                               out_bpm>>]_vars

\* a strong peak 150 ms after a registered beat, found by a call 300 ms
\* after it, has been ignored
C26_Witness ==
    /\ beat_log.what = "refractory" /\ beat_log.ibi = 150
    /\ last_beat_ms_ # 0 /\ pulse_now - last_beat_ms_ = 300
    /\ pulse_ret = RES_NONE

(***************************************************************************)
(* C27: the call of update that detects a peak registers the beat at the   *)
(* time of the previous sample, the peak: that time becomes last_beat_ms_  *)
(* and is the end point of the IBI.                                        *)
(***************************************************************************)
C27_BeatAtPeakTime ==
    [][BeatStep => /\ last_beat_ms_' = prev_t_ms_
                   /\ last_beat_ms_ # 0
                         => beat_log'.ibi = prev_t_ms_ - last_beat_ms_]_vars

\* what update does: the beat is registered at the time of the call
C27_BeatAtCallTime ==
    [][BeatStep => /\ last_beat_ms_' = pulse_now' /\ pulse_now' > prev_t_ms_
                   /\ last_beat_ms_ # 0
                         => beat_log'.ibi = pulse_now' - last_beat_ms_]_vars

(***************************************************************************)
(* C28: a tick that is usable with 45 <= bpm <= 130, or is not usable,     *)
(* leaves the abnormal-onset tracking cleared; a switch between brady and  *)
(* tachy restarts the onset at the switching tick; and a tick has a        *)
(* Bradycardia or Tachycardia candidate only at the end of a run of usable *)
(* ticks of that one kind that spans at least 5000 ms.                     *)
(***************************************************************************)
KindOf(r) ==
    IF Usable(r) /\ IsBrady(r) THEN BRADYCARDIA
    ELSE IF Usable(r) /\ IsTachy(r) THEN TACHYCARDIA
    ELSE NONE

TrackingCleared == abnormal_since_ms_ = 0 /\ abnormal_kind_ = NONE

\* ticks j..k are all of the kind and span at least sustain_ms
RunOfKind(j, k, kind) ==
    /\ trace[k].r.t_ms - trace[j].r.t_ms >= sustain_ms
    /\ \A i \in j..k : KindOf(trace[i].r) = kind

C28_OnsetContinuousOneKind ==
    /\ Len(trace) >= 1 =>
          LET r == trace[Len(trace)].r
          IN  /\ (Usable(r) /\ r.bpm >= brady_bpm /\ r.bpm <= tachy_bpm)
                    => TrackingCleared
              /\ ~Usable(r) => TrackingCleared
    /\ Len(trace) >= 2 =>
          LET r == trace[Len(trace)].r
              p == trace[Len(trace) - 1].r
          IN  (KindOf(r) # NONE /\ KindOf(p) # NONE /\ KindOf(r) # KindOf(p))
                 => /\ abnormal_since_ms_ = r.t_ms
                    /\ abnormal_kind_ = KindOf(r)
                    /\ trace[Len(trace)].sust = NONE
    /\ \A k \in 1..Len(trace) :
          /\ trace[k].sust \in {NONE, BRADYCARDIA, TACHYCARDIA}
          /\ trace[k].cand \in {BRADYCARDIA, TACHYCARDIA}
                => trace[k].cand = trace[k].sust
          /\ trace[k].sust # NONE
                => \E j \in 1..k : RunOfKind(j, k, trace[k].sust)

\* brady, then tachy for 5000 ms: the Tachycardia candidate comes 5000 ms
\* after the switching tick, 7000 ms or more after the first abnormal tick
C28_Witness ==
    /\ Len(trace) = 4
    /\ KindOf(trace[1].r) = BRADYCARDIA
    /\ \A i \in 2..4 : KindOf(trace[i].r) = TACHYCARDIA
    /\ trace[3].sust = NONE /\ trace[4].sust = TACHYCARDIA
    /\ trace[3].r.t_ms - trace[1].r.t_ms >= sustain_ms
    /\ abnormal_since_ms_ = trace[2].r.t_ms

(***************************************************************************)
(* C29: every tick, usable or not, appends its (bpm, t_ms) to the history  *)
(* ring, so after n ticks the ring holds the last min(n, 8) tick inputs in *)
(* the order of the ticks; and a usable tick with no sustained candidate   *)
(* has the Rapid-change candidate exactly when one of the up to 7 ticks    *)
(* before it, usable or not, lies at most 5000 ms back and differs by 35   *)
(* bpm or more.                                                            *)
(***************************************************************************)
\* the ring entry written i pushes ago, i = 1 being the newest
HistBack(i) == hist_[(hist_wr_ + HIST_N - i) % HIST_N]

RapidAgainst(k, j) ==
    /\ trace[k].r.t_ms - trace[j].r.t_ms > 0
    /\ trace[k].r.t_ms - trace[j].r.t_ms <= rapid_change_window_ms
    /\ Abs(trace[k].r.bpm - trace[j].r.bpm) >= rapid_change_delta_bpm

C29_RingHoldsEveryTick ==
    LET n == Len(trace)
    IN  /\ hist_count_ = Min(n, HIST_N)
        /\ hist_wr_ = n % HIST_N
        /\ \A i \in 1..hist_count_ :
              HistBack(i) = [bpm  |-> trace[n - i + 1].r.bpm,
                             t_ms |-> trace[n - i + 1].r.t_ms]
        /\ \A k \in 1..n :
              (~trace[k].due /\ Usable(trace[k].r) /\ trace[k].sust = NONE)
                 => (trace[k].cand = RAPID_CHANGE
                       <=> \E j \in Max(1, k - (HIST_N - 1))..(k - 1) :
                              RapidAgainst(k, j))

\* the ring has wrapped, and the tenth tick, usable with 70 bpm after four
\* usable ticks with 70 bpm and one unstable tick with 140 bpm, has the
\* Rapid-change candidate
C29_Witness ==
    /\ Len(trace) = 10 /\ hist_count_ = HIST_N /\ hist_wr_ = 2
    /\ \A j \in 5..8 : Usable(trace[j].r) /\ trace[j].r.bpm = 70
    /\ ~Usable(trace[9].r) /\ trace[9].r.bpm = 140
    /\ Usable(trace[10].r) /\ trace[10].r.bpm = 70
    /\ trace[10].cand = RAPID_CHANGE
    /\ HistBack(2).bpm = 140

(***************************************************************************)
(* C30: a tick whose candidate is an alarm makes that alarm the active one *)
(* on the same tick, with an event when it differs from the alarm active   *)
(* before, and resets the clear timer; so a tick clears the active alarm   *)
(* only at the end of a run of ticks with candidate None that spans at     *)
(* least 3000 ms.                                                          *)
(***************************************************************************)
\* ticks j..k all have the candidate None and span at least clear_ms
NoneRun(j, k) ==
    /\ trace[k].r.t_ms - trace[j].r.t_ms >= clear_ms
    /\ \A i \in j..k : trace[i].cand = NONE

C30_HoldOnlyBeforeNone ==
    /\ \A k \in 1..Len(trace) :
          /\ trace[k].cand # NONE
                => /\ trace[k].final = trace[k].cand
                   /\ trace[k].after = trace[k].cand
                   /\ trace[k].emitted <=> (trace[k].cand # trace[k].before)
          /\ (trace[k].before # NONE /\ trace[k].after = NONE)
                => \E j \in 1..k : NoneRun(j, k)
    /\ (Len(trace) >= 1 /\ trace[Len(trace)].cand # NONE)
          => clear_since_ms_ = 0

\* a pending clear at tick 4, an alarm candidate at tick 5, and the alarm
\* still active at tick 8, 4000 ms after the clear began to pend; it clears
\* at tick 9, 3000 ms after tick 6
C30_Witness ==
    /\ Len(trace) = 9
    /\ trace[4].before # NONE /\ trace[4].cand = NONE
    /\ trace[4].after = trace[4].before
    /\ trace[5].cand # NONE
    /\ \A i \in 6..9 : trace[i].cand = NONE
    /\ trace[8].after # NONE
    /\ trace[8].r.t_ms - trace[4].r.t_ms >= clear_ms
    /\ trace[9].before # NONE /\ trace[9].after = NONE /\ det_ret
    /\ trace[9].r.t_ms - trace[6].r.t_ms = clear_ms

(***************************************************************************)
(* C31: once detector_task has peeked a reading with bpm > 0 and quality   *)
(* >= 0.25 and timestamp T, no tick at a time <= T + 6000 has a NoSignal   *)
(* event; and when no newer reading is published, NoSignal is the active   *)
(* alarm from the first tick on that is at least 3000 ms after the first   *)
(* tick later than T + 3000, and such a tick comes.                        *)
(***************************************************************************)
\* the ticks later than 3000 ms after the reading detector_task holds
LateTicks == {k \in 1..Len(trace) : trace[k].r.t_ms > last.t_ms + 3000}

FirstLateTime ==
    trace[CHOOSE k \in LateTicks : \A j \in LateTicks : k <= j].r.t_ms

GoodReading(r) == r.bpm > 0 /\ r.quality >= min_quality_for_bpm

C31_StaleThenNoSignal ==
    /\ []((Len(trace) >= 1 /\ have_last /\ GoodReading(last))
            => /\ LastTick.r.t_ms <= last.t_ms + 6000
                     => LastTick.ev # NO_SIGNAL
               /\ \A k \in LateTicks :
                     IF trace[k].r.t_ms >= FirstLateTime + 3000
                     THEN trace[k].after = NO_SIGNAL
                     ELSE trace[k].ev # NO_SIGNAL)
    /\ \A n \in 1..MaxPublishes :
          (Len(published) = n /\ GoodReading(published[n]))
             ~> (active_alarm_ = NO_SIGNAL \/ Len(published) > n)

\* a reading of time T was peeked, nothing came after it, and the tick at
\* T + 7000 has the NoSignal event: the reading was stale from the tick at
\* T + 4000 on
C31_Witness ==
    /\ have_last /\ GoodReading(last) /\ dt_pc = "clock"
    /\ published[Len(published)] = last
    /\ LateTicks # {} /\ FirstLateTime = last.t_ms + 4000
    /\ LastTick.r.t_ms = last.t_ms + 7000
    /\ LastTick.ev = NO_SIGNAL /\ active_alarm_ = NO_SIGNAL
    /\ g_alarm_q = <<out_event>> /\ out_event.type = NO_SIGNAL

(***************************************************************************)
(* C32: when from some tick on every reading is usable with the same bpm   *)
(* in [45, 130] and the ticks keep advancing time, the active alarm is     *)
(* eventually None and None from then on, whatever the ticks before left   *)
(* in the active alarm and the history ring; until then the only events    *)
(* are Rapid change and the clear.                                         *)
(***************************************************************************)
SteadyReading(r) ==
    Usable(r) /\ r.bpm = 70 /\ r.bpm >= brady_bpm /\ r.bpm <= tachy_bpm

C32_EventuallyClear ==
    /\ []((\A k \in 1..Len(trace) : k > PrefixTicks => SteadyReading(trace[k].r))
          /\ (\A k \in 1..Len(trace) :
                 k > PrefixTicks => trace[k].ev \in {NONE, RAPID_CHANGE}))
    /\ <>[](active_alarm_ = NONE /\ Len(trace) > PrefixTicks)

\* Tachycardia was active when the steady readings began, the first of
\* them raised Rapid change, and the ninth cleared the alarm
C32_Witness ==
    /\ Len(trace) = PrefixTicks + 9
    /\ trace[PrefixTicks].after = TACHYCARDIA
    /\ trace[PrefixTicks + 1].ev = RAPID_CHANGE
    /\ trace[PrefixTicks + 8].after = RAPID_CHANGE
    /\ LastTick.emitted /\ active_alarm_ = NONE
    /\ hist_count_ = HIST_N /\ \A i \in 1..HIST_N : HistBack(i).bpm = 70

(***************************************************************************)
(* C33: a bpm returned with PROVISIONAL or STABLE, and so every bpm        *)
(* written to the BPM mailbox, lies in [40, 180]; the input detector_task  *)
(* builds from the mailbox has bpm <= 0 only when it is the synthetic one, *)
(* that is when the mailbox is empty or its reading is more than 3000 ms   *)
(* old.                                                                    *)
(***************************************************************************)
InBpmRange(b) == b >= BPM_MIN /\ b <= BPM_MAX

\* the times at which detector_task might look at the mailbox
PeekTimes ==
    IF g_bpm_q = <<>> THEN {now}
    ELSE {now, Head(g_bpm_q).t_ms + 3000, Head(g_bpm_q).t_ms + 3001}

StartStep == ~started /\ started'

TickStep == Len(trace') = Len(trace) + 1

C35_MailboxIsActiveAlarm ==
    /\ [](IF started
          THEN /\ Len(g_alarm_q) = 1
               /\ Head(g_alarm_q).type = active_alarm_
               /\ trace = <<>> => Head(g_alarm_q).type = NONE
          ELSE g_alarm_q = <<>>)
    /\ [][/\ StartStep => g_alarm_q' = <<[AlarmEvent0 EXCEPT !.t_ms = now]>>
          /\ TickStep => IF det_ret' THEN g_alarm_q' = <<out_event'>>
                                     ELSE g_alarm_q' = g_alarm_q
          /\ (g_alarm_q' # g_alarm_q \/ last_write'.alarm # last_write.alarm)
                => (StartStep \/ (TickStep /\ det_ret'))]_vars

\* a tick without an event, a tick with the Rapid-change event, a tick
\* without one and a corrected BPM written since: the mailbox holds the
\* Rapid-change event of the second tick
C35_Witness ==
    /\ TickDone /\ Len(trace) = 3
    /\ ~trace[1].emitted /\ trace[2].ev = RAPID_CHANGE /\ ~trace[3].emitted
    /\ active_alarm_ = RAPID_CHANGE
    /\ g_alarm_q = <<out_event>> /\ out_event.type = RAPID_CHANGE
    /\ out_event.t_ms = trace[2].r.t_ms
    /\ g_bpm_ml_q # <<>> /\ g_bpm_q # <<>>

(***************************************************************************)
(* C36: of the readings published after the latest contact transient the   *)
(* first two have stable = false, whatever the IBI ring held before the    *)
(* transient, and the later ones have stable = true; the anomaly detector  *)
(* gives a reading with stable = false no Bradycardia, Tachycardia or      *)
(* Rapid-change candidate, even with an onset 6000 ms old and a history    *)
(* entry 40 bpm away.                                                      *)
(***************************************************************************)
PostReadings ==
    {i \in 1..Len(published) : published[i].t_ms > last_transient_ms}

FirstPost == CHOOSE i \in PostReadings : \A j \in PostReadings : i <= j

\* the candidate of a tick with reading r when the abnormal onset of the
\* kind of r is 6000 ms old and the ring holds an entry 1000 ms old that is
\* 40 bpm higher
CandidateAtWorst(r) ==
    LET old == [bpm |-> r.bpm + 40, t_ms |-> r.t_ms - 1000]
        h   == PushHistBuf(PushHistBuf(hist_, 0, old), 1, r)
        ab  == TrackAbnormal(r.t_ms - 6000,
                             IF IsBrady(r) THEN BRADYCARDIA ELSE TACHYCARDIA, r)
    IN  Candidate(0, ab, h, 2, 2, r)

C36_PostTransientUnstable ==
    \A i \in PostReadings :
        IF i < FirstPost + 2
        THEN /\ ~published[i].stable
             /\ CandidateAtWorst(published[i]) = NONE
        ELSE /\ published[i].stable
             /\ CandidateAtWorst(published[i])
                   \in {BRADYCARDIA, TACHYCARDIA, RAPID_CHANGE}

\* three readings, the third stable, then a contact transient, the settling
\* period and a reset, then two readings: both are provisional
C36_Witness ==
    /\ Len(published) = 5 /\ published[3].stable
    /\ last_transient_ms > published[3].t_ms
    /\ PostReadings = {4, 5}
    /\ ~published[4].stable /\ ~published[5].stable
    /\ ibi_count_ = 2 /\ state = RUNNING /\ it.published

====
